---- MODULE Spec2Model ----
(***************************************************************************)
(* Model of the SmartBook solver's question lifecycle engine:              *)
(*   - _execute_ordering (src/main.py, src/actions.py): the lift/move/drop *)
(*     reordering protocol and its position bookkeeping.                   *)
(* Positions, slots and indices are 0-based as in the source; sequences    *)
(* are read with At(s, i) == s[i + 1].                                     *)
(***************************************************************************)
EXTENDS Integers, Sequences, FiniteSets, TLC

\* ------------------------------------------------------------------------
\* Bounds
\* ------------------------------------------------------------------------
MaxItems == 4

\* ------------------------------------------------------------------------
\* Text: a string is a sequence of character codes.
\*   0 = space, 1..26 = 'a'..'z', 27..52 = 'A'..'Z', 53 = newline,
\*   54..60 = : , ; . ) - >, 61..70 = '0'..'9'
\* ------------------------------------------------------------------------
SPACE == 0

NL == 53

COLON == 54

COMMA == 55

SEMI == 56

DOT == 57

RPAREN == 58

DASH == 59

GT == 60

\* the digits '0'..'9' are the codes 61..70
DIGIT0 == 61

\* str.isspace() / regex \s
IsSpace(c) == c = SPACE \/ c = NL

\* str.isdigit() on one character / regex \d
IsDigit(c) == c >= DIGIT0 /\ c <= DIGIT0 + 9

At(s, i) == s[i + 1]

Range0(n) == 0 .. (n - 1)

Min2(a, b) == IF a <= b THEN a ELSE b

Max2(a, b) == IF a >= b THEN a ELSE b

Abs(x) == IF x < 0 THEN 0 - x ELSE x

\* str.lower(): upper-case codes map to their lower-case code
LowerChar(c) == IF c >= 27 /\ c <= 52 THEN c - 26 ELSE c

Lower(s) == [k \in 1 .. Len(s) |-> LowerChar(s[k])]

RECURSIVE LStrip(_)
LStrip(s) == IF s # <<>> /\ IsSpace(Head(s)) THEN LStrip(Tail(s)) ELSE s

RECURSIVE RStrip(_)
RStrip(s) ==
    IF s # <<>> /\ IsSpace(s[Len(s)]) THEN RStrip(SubSeq(s, 1, Len(s) - 1)) ELSE s

\* str.strip()
Strip(s) == RStrip(LStrip(s))

\* Python "a in b" on strings: a occurs as a contiguous substring of b
Contains(b, a) ==
    \E k \in 0 .. (Len(b) - Len(a)) : SubSeq(b, k + 1, k + Len(a)) = a

\* ------------------------------------------------------------------------
\* fuzzy_match: index of the best matching original item, or -1
\* ------------------------------------------------------------------------
\* loop state of fuzzy_match: found = early-return index (or -1),
\* best_idx, and best_ratio kept as the fraction num/den
RECURSIVE FuzzyScan(_, _, _, _)
FuzzyScan(gpt_lower, original_texts, i, st) ==
    IF i >= Len(original_texts) \/ st.found >= 0 THEN st
    ELSE LET orig_lower == Strip(Lower(At(original_texts, i)))
             mn == Min2(Len(gpt_lower), Len(orig_lower))
             mx == Max2(Len(gpt_lower), Len(orig_lower))
         IN  IF gpt_lower = orig_lower
               THEN FuzzyScan(gpt_lower, original_texts, i + 1,
                              [st EXCEPT !.found = i])
             ELSE IF (Contains(orig_lower, gpt_lower) \/ Contains(gpt_lower, orig_lower))
                     /\ mn * st.den > st.num * mx
               THEN FuzzyScan(gpt_lower, original_texts, i + 1,
                              [st EXCEPT !.best_idx = i, !.num = mn, !.den = mx])
             ELSE FuzzyScan(gpt_lower, original_texts, i + 1, st)

\* fuzzy_match, mutated: a best ratio of exactly one half is accepted
fuzzy_matchAtLeastHalf(gpt_text, original_texts) ==
    LET st == FuzzyScan(Strip(Lower(gpt_text)), original_texts, 0,
                        [found |-> -1, best_idx |-> -1, num |-> 0, den |-> 1])
    IN  IF st.found >= 0 THEN st.found
        ELSE IF 2 * st.num >= st.den THEN st.best_idx
        ELSE -1

fuzzy_match(gpt_text, original_texts) ==
    LET st == FuzzyScan(Strip(Lower(gpt_text)), original_texts, 0,
                        [found |-> -1, best_idx |-> -1, num |-> 0, den |-> 1])
    IN  IF st.found >= 0 THEN st.found
        ELSE IF 2 * st.num > st.den THEN st.best_idx
        ELSE -1

InSeq(x, s) == \E k \in 1 .. Len(s) : s[k] = x

\* desired_order, mutated: an oracle item without a match stands for the
\* first original item not placed yet
RECURSIVE BuildDesiredOrderPadUnmatched(_, _, _)
BuildDesiredOrderPadUnmatched(items, original_texts, acc) ==
    IF items = <<>> THEN acc
    ELSE LET idx  == fuzzy_match(Head(items), original_texts)
             free == { i \in 0 .. (Len(original_texts) - 1) : ~InSeq(i, acc) }
             pick == IF idx >= 0 THEN idx
                     ELSE IF free = {} THEN -1
                     ELSE CHOOSE i \in free : \A j \in free : i <= j
         IN  BuildDesiredOrderPadUnmatched(Tail(items), original_texts,
                 IF pick >= 0 /\ ~InSeq(pick, acc) THEN Append(acc, pick) ELSE acc)

\* desired_order, mutated: a matched index is put in front of the list
RECURSIVE BuildDesiredOrderPrepend(_, _, _)
BuildDesiredOrderPrepend(items, original_texts, acc) ==
    IF items = <<>> THEN acc
    ELSE LET idx == fuzzy_match(Head(items), original_texts)
         IN  BuildDesiredOrderPrepend(Tail(items), original_texts,
                 IF idx >= 0 /\ ~InSeq(idx, acc) THEN <<idx>> \o acc ELSE acc)

\* desired_order[i] = original index of the item that should be at position i
RECURSIVE BuildDesiredOrder(_, _, _)
BuildDesiredOrder(items, original_texts, acc) ==
    IF items = <<>> THEN acc
    ELSE LET idx == fuzzy_match(Head(items), original_texts)
         IN  BuildDesiredOrder(Tail(items), original_texts,
                 IF idx >= 0 /\ ~InSeq(idx, acc) THEN Append(acc, idx) ELSE acc)

Identity(n) == [k \in 1 .. n |-> k - 1]

\* ------------------------------------------------------------------------
\* The live sortable list (react-beautiful-dnd keyboard dragging): the
\* lifted item moves one slot per arrow key and stays put at either end.
\* ------------------------------------------------------------------------
SwapSlots(list, a, b) ==
    [k \in 1 .. Len(list) |->
        IF k = a + 1 THEN At(list, b) ELSE IF k = b + 1 THEN At(list, a) ELSE list[k]]

RECURSIVE PressArrows(_, _, _, _)
PressArrows(list, pos, key, count) ==
    IF count = 0 THEN list
    ELSE IF key = "ARROW_UP"
      THEN IF pos > 0 THEN PressArrows(SwapSlots(list, pos, pos - 1), pos - 1, key, count - 1)
                      ELSE PressArrows(list, pos, key, count - 1)
    ELSE IF pos < Len(list) - 1
           THEN PressArrows(SwapSlots(list, pos, pos + 1), pos + 1, key, count - 1)
           ELSE PressArrows(list, pos, key, count - 1)

ArrowKey(moves) == IF moves > 0 THEN "ARROW_UP" ELSE "ARROW_DOWN"

\* the signals of one gesture, mutated: the item is never dropped
GestureSignalsNoDrop(moves) ==
    <<"focus", "SPACE">> \o [k \in 1 .. Abs(moves) |-> ArrowKey(moves)]

\* the signals of one gesture, in the order they are sent
GestureSignals(moves) ==
    <<"focus", "SPACE">> \o [k \in 1 .. Abs(moves) |-> ArrowKey(moves)] \o <<"SPACE">>

\* position bookkeeping after one move, mutated: the items in between are
\* not shifted
UpdatePositionsNoShift(cp, orig_idx, current_pos, target_pos) ==
    [cp EXCEPT ![orig_idx + 1] = target_pos]

\* position bookkeeping after one move, mutated: the upward shift has no
\* lower bound, so the slots above the target are shifted as well
UpdatePositionsNoLowerBound(cp, orig_idx, current_pos, target_pos) ==
    LET moves == current_pos - target_pos
        shifted == [k \in 1 .. Len(cp) |->
                      IF moves > 0
                        THEN IF cp[k] < current_pos THEN cp[k] + 1 ELSE cp[k]
                      ELSE IF current_pos < cp[k] /\ cp[k] <= target_pos
                               THEN cp[k] - 1 ELSE cp[k]]
    IN  [shifted EXCEPT ![orig_idx + 1] = target_pos]

\* position bookkeeping after one move, mutated: the upward shift leaves
\* out the item sitting at the target slot
UpdatePositionsOpenLow(cp, orig_idx, current_pos, target_pos) ==
    LET moves == current_pos - target_pos
        shifted == [k \in 1 .. Len(cp) |->
                      IF moves > 0
                        THEN IF target_pos < cp[k] /\ cp[k] < current_pos
                               THEN cp[k] + 1 ELSE cp[k]
                      ELSE IF current_pos < cp[k] /\ cp[k] <= target_pos
                               THEN cp[k] - 1 ELSE cp[k]]
    IN  [shifted EXCEPT ![orig_idx + 1] = target_pos]

\* position bookkeeping after one move
UpdatePositions(cp, orig_idx, current_pos, target_pos) ==
    LET moves == current_pos - target_pos
        shifted == [k \in 1 .. Len(cp) |->
                      IF moves > 0
                        THEN IF target_pos <= cp[k] /\ cp[k] < current_pos
                               THEN cp[k] + 1 ELSE cp[k]
                      ELSE IF current_pos < cp[k] /\ cp[k] <= target_pos
                               THEN cp[k] - 1 ELSE cp[k]]
    IN  [shifted EXCEPT ![orig_idx + 1] = target_pos]

\* ------------------------------------------------------------------------
\* Inputs of the ordering model
\* ------------------------------------------------------------------------
\* on-screen item i (0-based) carries the two-letter text "xx"
ItemText(i) == <<i + 1, i + 1>>

OriginalItems(n) == [k \in 1 .. n |-> ItemText(k - 1)]

JUNK == <<26, 26>>

\* what the oracle may write for item i: the exact text, the text in
\* another case with surrounding blanks, the text with a trailing letter
\* (ratio 2/3), the first letter only (ratio 1/2)
OracleVariants(i) ==
    { ItemText(i), <<SPACE, i + 27, i + 1, SPACE>>, <<i + 1, i + 1, 25>>, <<i + 1>> }

Perms(n) ==
    { p \in [1 .. n -> Range0(n)] : \A a, b \in 1 .. n : a # b => p[a] # p[b] }

InsertAt(s, k, x) == SubSeq(s, 1, k) \o <<x>> \o SubSeq(s, k + 1, Len(s))

RemoveAt(s, k) == SubSeq(s, 1, k - 1) \o SubSeq(s, k + 1, Len(s))

\* the oracle's answers: a permutation of the items, possibly with one
\* entry rewritten, replaced, repeated, dropped, or one stray line added
OracleAnswers(n) ==
    LET exact(p) == [k \in 1 .. n |-> ItemText(p[k])]
    IN  UNION { { exact(p) }
                \cup UNION { { [exact(p) EXCEPT ![k] = v] :
                                 v \in OracleVariants(p[k]) \cup {JUNK} } : k \in 1 .. n }
                \cup { InsertAt(exact(p), k, x) : k \in 0 .. n,
                                                  x \in {JUNK} \cup {ItemText(j) : j \in Range0(n)} }
                \cup { RemoveAt(exact(p), k) : k \in 1 .. n }
              : p \in Perms(n) }
          \cup { <<>> }

\* ------------------------------------------------------------------------
\* State
\* ------------------------------------------------------------------------
VARIABLES
    original_items,     \* action["original_items"]: texts captured at extraction
    ordered_items,      \* action["ordered_items"]: texts in the oracle's order
    item_elements,      \* number of element refs captured at extraction
    desired_order,      \* desired_order[target position] = original index
    current_positions,  \* current_positions[original index] = current slot
    target_pos,         \* loop variable of the reordering loop
    opc,                \* position of _execute_ordering
    dom,                \* the live list: dom[slot] = original index of the item
    signals,            \* signals sent by the latest gesture, in order
    gestures,           \* number of gestures sent so far
    skipped             \* a target position was skipped: slot out of range

ordVars == <<original_items, ordered_items, item_elements, desired_order,
             current_positions, target_pos, opc, dom, signals, gestures, skipped>>

VARIABLES
    page,               \* the rendered page: the top document and its embedded frames
    frame_ctx,          \* the driver's frame context: <<>> = default content
    page_type,          \* the label returned by detect_page_type ("" before the call)
    cpc                 \* position of the classifier

clsVars == <<page, frame_ctx, page_type, cpc>>

VARIABLES
    controls,           \* the controls on a question page, per selector
    qd,                 \* the QuestionData returned by parse_question
    ppc                 \* position of the extractor

pqVars == <<controls, qd, ppc>>

VARIABLES
    stop_flag,          \* main.stop_flag
    pause_flag,         \* main.pause_flag
    driver,             \* main.driver: "none" or "chrome"
    is_running,         \* SolverGUI.is_running
    is_paused,          \* SolverGUI.is_paused
    start_btn,          \* state of the Start button: "normal" or "disabled"
    stop_btn,           \* state of the Stop and Pause buttons
    after_queue,        \* gui._on_stop callbacks queued with root.after
    started,            \* number of worker threads created by _on_start
    pc,                 \* pc[t]: position of worker thread t
    calls,              \* calls[t]: oracle calls started in the current iteration
    fails,              \* fails[t]: oracle calls that raised in the current iteration
    acted,              \* acted[t]: _execute_action ran in the current iteration
    last_error,         \* last_error[t]: how the latest oracle call of t failed
    stop_in_delay       \* stop_in_delay[t]: Stop was requested while t slept
                        \* in a delay of its current iteration

loopVars == <<stop_flag, pause_flag, driver, is_running, is_paused, start_btn,
              stop_btn, after_queue, started, pc, calls, fails, acted,
              last_error, stop_in_delay>>

VARIABLES
    act_executor,       \* "main" (_execute_action) or "actions" (actions.execute)
    act_type,           \* action type: multi_click, multi_type, dropdown
    act_targets,        \* per target: "live", "stale" (the reference went stale)
                        \* or "no_option" (the value is not an option of the select)
    act_values,         \* len(action.values)
    act_i,              \* index of the item the loop is at (0-based)
    attempted,          \* indices of the items the executor has attempted
    apc                 \* position of the executor

actVars == <<act_executor, act_type, act_targets, act_values, act_i, attempted, apc>>

VARIABLES
    fm_text,            \* gpt_text handed to fuzzy_match
    fm_items,           \* original_texts handed to fuzzy_match
    fm_result,          \* the index returned by fuzzy_match
    fpc                 \* position of the fuzzy_match call

fzVars == <<fm_text, fm_items, fm_result, fpc>>

VARIABLES
    oracle_text,        \* the oracle's response handed to the interpreter
    int_question,       \* the question the response answers
    answer_line,        \* the string returned by _extract_answer_line
    int_action,         \* the action returned by parse_gpt_response
    ipc                 \* position of the interpreter

intVars == <<oracle_text, int_question, answer_line, int_action, ipc>>

VARIABLES
    active_sessions,    \* rows of the active_sessions table
    sess_req            \* per device: the /api/session/start request it has in flight

sessVars == <<active_sessions, sess_req>>

VARIABLES
    mt_executor,        \* "main" (main._execute_matching) or "actions"
    mt_matches,         \* action.matches: the oracle's pairs
    mt_i,               \* index of the pair the loop is at (0-based)
    mt_render,          \* how often the page has re-rendered its choice list
    mt_drags,           \* the drags attempted so far
    mpc                 \* position of the matching executor

matchVars == <<mt_executor, mt_matches, mt_i, mt_render, mt_drags, mpc>>

VARIABLES
    order_status,       \* orders.status of the order
    order_key,          \* orders.key of the order (0: none)
    keys_created,       \* number of rows create_key has added for the order
    approvals,          \* number of times the order was set to approved
    email_retry_queue,  \* keys with an entry in email_retry_queue
    pay_req             \* per request handler: the request it is serving

payVars == <<order_status, order_key, keys_created, approvals, email_retry_queue, pay_req>>

\* the matching executor and the licensing server
extVars == <<sessVars, matchVars, payVars>>

vars == <<ordVars, clsVars, pqVars, loopVars, actVars, fzVars, intVars, extVars>>

\* the parts of the state a component does not touch
OrdIdle ==
    /\ original_items = <<>>
    /\ ordered_items = <<>>
    /\ item_elements = 0
    /\ desired_order = <<>>
    /\ current_positions = <<>>
    /\ target_pos = 0
    /\ opc = "idle"
    /\ dom = <<>>
    /\ signals = <<>>
    /\ gestures = 0
    /\ skipped = FALSE

ClsIdle ==
    /\ page = <<>>
    /\ frame_ctx = <<>>
    /\ page_type = ""
    /\ cpc = "idle"

PqIdle ==
    /\ controls = <<>>
    /\ qd = <<>>
    /\ ppc = "idle"

ActIdle ==
    /\ act_executor = "none"
    /\ act_type = "none"
    /\ act_targets = <<>>
    /\ act_values = 0
    /\ act_i = 0
    /\ attempted = {}
    /\ apc = "idle"

LoopIdle ==
    /\ stop_flag = FALSE
    /\ pause_flag = FALSE
    /\ driver = "none"
    /\ is_running = FALSE
    /\ is_paused = FALSE
    /\ start_btn = "disabled"
    /\ stop_btn = "disabled"
    /\ after_queue = 0
    /\ started = 0
    /\ pc = <<>>
    /\ calls = <<>>
    /\ fails = <<>>
    /\ acted = <<>>
    /\ last_error = <<>>
    /\ stop_in_delay = <<>>

FzIdle ==
    /\ fm_text = <<>>
    /\ fm_items = <<>>
    /\ fm_result = -1
    /\ fpc = "idle"

IntIdle ==
    /\ oracle_text = <<>>
    /\ int_question = <<>>
    /\ answer_line = <<>>
    /\ int_action = <<>>
    /\ ipc = "idle"

SessIdle ==
    /\ active_sessions = {}
    /\ sess_req = <<>>

MatchIdle ==
    /\ mt_executor = "none"
    /\ mt_matches = <<>>
    /\ mt_i = 0
    /\ mt_render = 0
    /\ mt_drags = <<>>
    /\ mpc = "idle"

PayIdle ==
    /\ order_status = ""
    /\ order_key = 0
    /\ keys_created = 0
    /\ approvals = 0
    /\ email_retry_queue = {}
    /\ pay_req = <<>>

ExtIdle ==
    /\ SessIdle
    /\ MatchIdle
    /\ PayIdle

\* ------------------------------------------------------------------------
\* _execute_ordering
\* ------------------------------------------------------------------------
InitOrdering ==
    /\ \E n \in 2 .. MaxItems :
          /\ original_items = OriginalItems(n)
          /\ ordered_items \in OracleAnswers(n)
          /\ item_elements \in {0, n}
          /\ dom = Identity(n)
    /\ desired_order = <<>>
    /\ current_positions = <<>>
    /\ target_pos = 0
    /\ opc = "start"
    /\ signals = <<>>
    /\ gestures = 0
    /\ skipped = FALSE
    /\ ClsIdle
    /\ PqIdle
    /\ LoopIdle
    /\ ActIdle
    /\ FzIdle
    /\ IntIdle
    /\ ExtIdle

\* entry of _execute_ordering up to the start of the reordering loop
OrderingBegin ==
    /\ opc = "start"
    /\ IF ordered_items = <<>> \/ item_elements = 0
         THEN /\ opc' = "no_items"
              /\ UNCHANGED <<desired_order, current_positions>>
       ELSE LET d == BuildDesiredOrder(ordered_items, original_items, <<>>)
            IN  /\ desired_order' = d
                /\ IF Len(d) # Len(original_items)
                     THEN /\ opc' = "abort"
                          /\ UNCHANGED current_positions
                   ELSE IF d = Identity(Len(original_items))
                     THEN /\ opc' = "in_order"
                          /\ UNCHANGED current_positions
                   ELSE /\ opc' = "loop"
                        /\ current_positions' = Identity(Len(original_items))
    /\ UNCHANGED <<original_items, ordered_items, item_elements, target_pos,
                   dom, signals, gestures, skipped>>
    /\ UNCHANGED <<clsVars, pqVars, loopVars, actVars, fzVars, intVars, extVars>>

\* find_elements_safe on the sortable items: the live list, or [] when the
\* driver call fails
FreshItems == { dom, <<>> }

\* one iteration of "for target_pos in range(len(desired_order))"
OrderingStep ==
    /\ opc = "loop"
    /\ target_pos < Len(desired_order)
    /\ LET orig_idx    == At(desired_order, target_pos)
           current_pos == At(current_positions, orig_idx)
           moves       == current_pos - target_pos
       IN  IF current_pos = target_pos
             THEN /\ target_pos' = target_pos + 1
                  /\ UNCHANGED <<current_positions, opc, dom, signals, gestures, skipped>>
           ELSE \E fresh_items \in FreshItems :
                  IF current_pos >= Len(fresh_items)
                    THEN /\ target_pos' = target_pos + 1
                         /\ skipped' = TRUE
                         /\ UNCHANGED <<current_positions, opc, dom, signals, gestures>>
                  ELSE \/ /\ dom' = PressArrows(dom, current_pos, ArrowKey(moves), Abs(moves))
                          /\ signals' = GestureSignals(moves)
                          /\ gestures' = gestures + 1
                          /\ current_positions' =
                                UpdatePositions(current_positions, orig_idx, current_pos, target_pos)
                          /\ target_pos' = target_pos + 1
                          /\ UNCHANGED <<opc, skipped>>
                       \/ \* the element went stale: focus raises, nothing is sent
                          /\ opc' = "raised"
                          /\ UNCHANGED <<current_positions, target_pos, dom, signals,
                                         gestures, skipped>>
    /\ UNCHANGED <<original_items, ordered_items, item_elements, desired_order>>
    /\ UNCHANGED <<clsVars, pqVars, loopVars, actVars, fzVars, intVars, extVars>>

\* the loop is exhausted
OrderingEnd ==
    /\ opc = "loop"
    /\ target_pos = Len(desired_order)
    /\ opc' = "done"
    /\ UNCHANGED <<original_items, ordered_items, item_elements, desired_order,
                   current_positions, target_pos, dom, signals, gestures, skipped>>
    /\ UNCHANGED <<clsVars, pqVars, loopVars, actVars, fzVars, intVars, extVars>>

NextOrdering == OrderingBegin \/ OrderingStep \/ OrderingEnd

SpecOrdering == InitOrdering /\ [][NextOrdering]_vars

\* ------------------------------------------------------------------------
\* Properties of _execute_ordering
\* ------------------------------------------------------------------------
IsPermutation(s, n) ==
    /\ Len(s) = n
    /\ \A i \in Range0(n) : \E k \in 1 .. n : s[k] = i

\* the oracle's order [C, A, D, B] for the items [A, B, C, D]
OrderCADB == <<ItemText(2), ItemText(0), ItemText(3), ItemText(1)>>

\* C1: when the reordering loop has processed every target position of a
\* permutation (no position skipped because the live list was short), the
\* table satisfies current_positions[desired_order[p]] = p for every p, and
\* for the items [A,B,C,D] with the desired order [C,A,D,B] it is [1,3,0,2].
C1_FinalTable ==
    (opc = "done" /\ ~skipped) =>
        /\ \A p \in Range0(Len(desired_order)) :
              At(current_positions, At(desired_order, p)) = p
        /\ (original_items = OriginalItems(4) /\ ordered_items = OrderCADB)
              => current_positions = <<1, 3, 0, 2>>

C1_Witness ==
    /\ opc = "done"
    /\ ~skipped
    /\ original_items = OriginalItems(4)
    /\ ordered_items = OrderCADB
    /\ desired_order = <<2, 0, 3, 1>>
    /\ current_positions = <<1, 3, 0, 2>>
    /\ gestures = 2

\* C2: after every gesture the position table agrees with the live list:
\* the item at slot current_positions[i] is item i, and the table is a
\* permutation of 0..n-1.
C2_TableMatchesList ==
    (opc \in {"loop", "done", "raised"}) =>
        /\ IsPermutation(current_positions, Len(original_items))
        /\ \A i \in Range0(Len(original_items)) :
              At(dom, At(current_positions, i)) = i

C2_Witness ==
    /\ opc = "loop"
    /\ gestures = 2
    /\ Len(signals) > 3
    /\ dom # Identity(Len(original_items))
    /\ \A i \in Range0(Len(original_items)) : At(dom, At(current_positions, i)) = i

\* number of oracle items that fuzzy-match original item i
MatchCount(i) ==
    Cardinality({ k \in 1 .. Len(ordered_items) :
                    fuzzy_match(ordered_items[k], original_items) = i })

\* C7 as stated: signals are sent only if every original item is matched by
\* exactly one oracle item.
C7_ExactlyOnce ==
    gestures > 0 => \A i \in Range0(Len(original_items)) : MatchCount(i) = 1

\* C7 amended: signals are sent only if every original item is matched by
\* at least one oracle item (a repeated match of an item is ignored); when
\* some original item is unmatched the action aborts and the live list is
\* untouched.
C7_AbortOnUnmatched ==
    (\E i \in Range0(Len(original_items)) : MatchCount(i) = 0) =>
        /\ opc \in {"start", "abort", "no_items"}
        /\ gestures = 0
        /\ signals = <<>>
        /\ dom = Identity(Len(original_items))

C7_Witness ==
    /\ opc = "abort"
    /\ item_elements > 0
    /\ Len(ordered_items) = Len(original_items)
    /\ \E i \in Range0(Len(original_items)) : MatchCount(i) = 0
    /\ gestures = 0

\* the oracle lists the items in their on-screen order
OracleInScreenOrder ==
    /\ Len(ordered_items) = Len(original_items)
    /\ \A k \in 1 .. Len(ordered_items) :
          fuzzy_match(ordered_items[k], original_items) = k - 1

\* C19: when the desired order is the identity permutation (the oracle's
\* order is the on-screen order) the ordering action sends no focus, lift,
\* step or drop signal, and the live list is untouched.
C19_IdentityNoSignals ==
    /\ (opc # "start" /\ desired_order = Identity(Len(original_items))) =>
          /\ opc = "in_order"
          /\ signals = <<>>
          /\ gestures = 0
          /\ dom = Identity(Len(original_items))
    /\ (opc # "start" /\ item_elements > 0 /\ OracleInScreenOrder) =>
          /\ desired_order = Identity(Len(original_items))
          /\ signals = <<>>
          /\ gestures = 0

C19_Witness ==
    /\ opc = "in_order"
    /\ Len(original_items) = MaxItems
    /\ ordered_items # original_items
    /\ OracleInScreenOrder
    /\ desired_order = Identity(MaxItems)
    /\ signals = <<>>

\* ------------------------------------------------------------------------
\* Page state classifier: detect_page_type (src/parser.py)
\* ------------------------------------------------------------------------
\* A document (the top page or an embedded frame) is a record of what the
\* selectors find in it:
\*   ready               document.readyState == "complete"
\*   loading_spinner, complete_indicator, responses_container,
\*   question_fieldset, text_input, radio, checkbox, nav_bar,
\*   reading_button      the selector finds at least one element
\*   tray_buttons        the recharge tray buttons, each "continue" (text
\*                       contains "continue"), "help" (it does not) or
\*                       "stale" (reading its text raises StaleElementReference)
\*                       or "error" (reading its text raises another
\*                       WebDriverException)
\*   buttons             the "button, a, div[role='button']" elements, each
\*                       "short" (visible continue control, text < 50),
\*                       "long" (continue text of 50 or more), "hidden"
\*                       (continue text, not displayed), "other", "stale",
\*                       "error" (as for the tray buttons)
\*   frames              the embedded iframes, in document order
_has_element(found) == found

RECURSIVE _is_recharge_page(_)
_is_recharge_page(tray_buttons) ==
    IF tray_buttons = <<>> THEN FALSE
    ELSE IF Head(tray_buttons) = "continue" THEN TRUE
    ELSE _is_recharge_page(Tail(tray_buttons))

\* _is_recharge_page leaves with an exception: a button whose text cannot
\* be read for a reason other than staleness is met before a continue button
RECURSIVE RechargeRaises(_)
RechargeRaises(tray_buttons) ==
    IF tray_buttons = <<>> THEN FALSE
    ELSE IF Head(tray_buttons) = "continue" THEN FALSE
    ELSE IF Head(tray_buttons) = "error" THEN TRUE
    ELSE RechargeRaises(Tail(tray_buttons))

\* the same for the loop over the buttons in _is_content_page
RECURSIVE ContentRaises(_)
ContentRaises(buttons) ==
    IF buttons = <<>> THEN FALSE
    ELSE IF Head(buttons) = "short" THEN FALSE
    ELSE IF Head(buttons) = "error" THEN TRUE
    ELSE ContentRaises(Tail(buttons))

RECURSIVE HasContinue(_)
HasContinue(buttons) ==
    IF buttons = <<>> THEN FALSE
    ELSE IF Head(buttons) = "short" THEN TRUE
    ELSE HasContinue(Tail(buttons))

_is_content_page(d) ==
    IF ~HasContinue(d.buttons) THEN FALSE
    ELSE LET has_question_elements ==
                 \/ _has_element(d.responses_container)
                 \/ _has_element(d.question_fieldset)
                 \/ _has_element(d.radio)
                 \/ _has_element(d.checkbox)
                 \/ _has_element(d.text_input)
         IN  ~has_question_elements

\* the rules of detect_page_type, mutated: the reading rule is tried before
\* the question rules
DetectRulesReadingFirst(d) ==
    IF ~d.ready THEN "loading"
    ELSE IF _has_element(d.loading_spinner) THEN "loading"
    ELSE IF _has_element(d.complete_indicator) THEN "complete"
    ELSE IF RechargeRaises(d.tray_buttons) THEN "raise"
    ELSE IF _is_recharge_page(d.tray_buttons) THEN "recharge"
    ELSE IF _has_element(d.nav_bar) /\ _has_element(d.reading_button) THEN "reading"
    ELSE IF _has_element(d.responses_container) THEN "question"
    ELSE IF _has_element(d.question_fieldset) THEN "question"
    ELSE IF _has_element(d.text_input) THEN "question"
    ELSE IF _has_element(d.radio) \/ _has_element(d.checkbox) THEN "question"
    ELSE IF ContentRaises(d.buttons) THEN "raise"
    ELSE IF _is_content_page(d) THEN "content"
    ELSE "none"

\* the rules of detect_page_type on the document of the current context,
\* in source order; "none" when the code falls through to the frame
\* search, "raise" when a helper leaves with an exception
DetectRules(d) ==
    IF ~d.ready THEN "loading"
    ELSE IF _has_element(d.loading_spinner) THEN "loading"
    ELSE IF _has_element(d.complete_indicator) THEN "complete"
    ELSE IF RechargeRaises(d.tray_buttons) THEN "raise"
    ELSE IF _is_recharge_page(d.tray_buttons) THEN "recharge"
    ELSE IF _has_element(d.responses_container) THEN "question"
    ELSE IF _has_element(d.question_fieldset) THEN "question"
    ELSE IF _has_element(d.text_input) THEN "question"
    ELSE IF _has_element(d.radio) \/ _has_element(d.checkbox) THEN "question"
    ELSE IF _has_element(d.nav_bar) /\ _has_element(d.reading_button) THEN "reading"
    ELSE IF ContentRaises(d.buttons) THEN "raise"
    ELSE IF _is_content_page(d) THEN "content"
    ELSE "none"

DocAt(pg, ctx) ==
    IF Len(ctx) = 0 THEN pg
    ELSE IF Len(ctx) = 1 THEN pg.frames[ctx[1]]
    ELSE pg.frames[ctx[1]].frames[ctx[2]]

\* the scan of the nested iframes of one iframe: index of the first nested
\* frame with a responses container or a radio input, 0 if none
RECURSIVE NestedScan(_, _)
NestedScan(nested, j) ==
    IF j > Len(nested) THEN 0
    ELSE IF _has_element(nested[j].responses_container) \/ _has_element(nested[j].radio)
      THEN j
    ELSE NestedScan(nested, j + 1)

\* _try_switch_to_question_frame from the default content: the context the
\* driver is left in, and whether question content was found
RECURSIVE FrameScan(_, _)
FrameScan(iframes, i) ==
    IF i > Len(iframes) THEN [found |-> FALSE, ctx |-> <<>>]
    ELSE LET f == iframes[i]
         IN  IF \/ _has_element(f.responses_container)
                \/ _has_element(f.question_fieldset)
                \/ _has_element(f.radio)
                \/ _has_element(f.checkbox)
                \/ _has_element(f.text_input)
               THEN [found |-> TRUE, ctx |-> <<i>>]
             ELSE LET j == NestedScan(f.frames, 1)
                  IN  IF j > 0 THEN [found |-> TRUE, ctx |-> <<i, j>>]
                      ELSE FrameScan(iframes, i + 1)

_try_switch_to_question_frame(pg) == FrameScan(pg.frames, 1)

\* detect_page_type called with the driver in context ctx: the label and the
\* context the driver is left in
RECURSIVE detect_page_type(_, _)
detect_page_type(pg, ctx) ==
    LET r == DetectRules(DocAt(pg, ctx))
    IN  IF r # "none" THEN [label |-> r, ctx |-> ctx]
        ELSE IF Len(ctx) > 0 THEN [label |-> "unknown", ctx |-> ctx]
        ELSE LET sw == _try_switch_to_question_frame(pg)
             IN  IF sw.found
                   THEN LET result == detect_page_type(pg, sw.ctx)
                        IN  IF result.label # "unknown" THEN result
                            ELSE [label |-> "unknown", ctx |-> <<>>]
                 ELSE [label |-> "unknown", ctx |-> <<>>]

\* ---- inputs -----------------------------------------------------------
TrayChoices ==
    { <<>>, <<"help">>, <<"continue">>, <<"stale">>, <<"help", "continue">>,
      <<"stale", "continue">>, <<"error">>, <<"continue", "error">> }

ButtonChoices ==
    { <<>>, <<"short">>, <<"long">>, <<"hidden">>, <<"other", "short">>,
      <<"stale", "short">>, <<"error">>, <<"short", "error">> }

BlankDoc ==
    [ready |-> TRUE, loading_spinner |-> FALSE, complete_indicator |-> FALSE,
     tray_buttons |-> <<>>, responses_container |-> FALSE,
     question_fieldset |-> FALSE, text_input |-> FALSE, radio |-> FALSE,
     checkbox |-> FALSE, nav_bar |-> FALSE, reading_button |-> FALSE,
     buttons |-> <<>>, frames |-> <<>>]

\* every combination of the signals of one document, without frames
SignalDocs ==
    [ready : BOOLEAN, loading_spinner : BOOLEAN, complete_indicator : BOOLEAN,
     tray_buttons : TrayChoices, responses_container : BOOLEAN,
     question_fieldset : BOOLEAN, text_input : BOOLEAN, radio : BOOLEAN,
     checkbox : BOOLEAN, nav_bar : BOOLEAN, reading_button : BOOLEAN,
     buttons : ButtonChoices, frames : {<<>>}]

\* documents found inside frames
InnerDocs ==
    { BlankDoc,
      [BlankDoc EXCEPT !.radio = TRUE],
      [BlankDoc EXCEPT !.checkbox = TRUE],
      [BlankDoc EXCEPT !.responses_container = TRUE],
      [BlankDoc EXCEPT !.text_input = TRUE, !.loading_spinner = TRUE],
      [BlankDoc EXCEPT !.question_fieldset = TRUE, !.ready = FALSE] }

FrameDocs ==
    InnerDocs \cup { [BlankDoc EXCEPT !.frames = <<g>>] : g \in InnerDocs }

FrameLists == { <<f>> : f \in FrameDocs } \cup { <<BlankDoc, f>> : f \in FrameDocs }

InitClassify ==
    /\ \/ page \in SignalDocs
       \/ \E d \in SignalDocs, fs \in FrameLists :
             /\ DetectRules(d) = "none"
             /\ page = [d EXCEPT !.frames = fs]
    /\ frame_ctx = <<>>
    /\ page_type = ""
    /\ cpc = "ready"
    /\ OrdIdle
    /\ PqIdle
    /\ LoopIdle
    /\ ActIdle
    /\ FzIdle
    /\ IntIdle
    /\ ExtIdle

\* one poll of the classifier
DetectPageType ==
    /\ cpc = "ready"
    /\ LET res == detect_page_type(page, frame_ctx)
       IN  /\ frame_ctx' = res.ctx
           /\ IF res.label = "raise"
                 THEN /\ page_type' = page_type
                      /\ cpc' = "raised"
               ELSE /\ page_type' = res.label
                    /\ cpc' = "classified"
    /\ UNCHANGED page
    /\ UNCHANGED <<ordVars, pqVars, loopVars, actVars, fzVars, intVars, extVars>>

NextClassify == DetectPageType

SpecClassify == InitClassify /\ [][NextClassify]_vars

\* ---- properties -------------------------------------------------------
LoadingSignal(d) == ~d.ready \/ d.loading_spinner

CompleteSignal(d) == d.complete_indicator

RechargeSignal(d) == \E k \in 1 .. Len(d.tray_buttons) : d.tray_buttons[k] = "continue"

QuestionSignal(d) ==
    d.responses_container \/ d.question_fieldset \/ d.text_input \/ d.radio \/ d.checkbox

ReadingSignal(d) == d.nav_bar /\ d.reading_button

ContentSignal(d) == \E k \in 1 .. Len(d.buttons) : d.buttons[k] = "short"

AnySignal(d) ==
    \/ LoadingSignal(d) \/ CompleteSignal(d) \/ RechargeSignal(d)
    \/ QuestionSignal(d) \/ ReadingSignal(d) \/ ContentSignal(d)

\* C3: detect_page_type returns the label of the first rule that matches in
\* the order loading, complete, recharge, question, reading, content; a page
\* with a continue tray and a navigation bar with a reading button is
\* recharge, and reading or content is returned only without question signal.
C3_FirstMatchWins ==
    (cpc = "classified" /\ AnySignal(page)) =>
        /\ page_type =
              CASE LoadingSignal(page)   -> "loading"
                [] ~LoadingSignal(page) /\ CompleteSignal(page) -> "complete"
                [] ~LoadingSignal(page) /\ ~CompleteSignal(page) /\ RechargeSignal(page)
                        -> "recharge"
                [] ~LoadingSignal(page) /\ ~CompleteSignal(page) /\ ~RechargeSignal(page)
                     /\ QuestionSignal(page) -> "question"
                [] ~LoadingSignal(page) /\ ~CompleteSignal(page) /\ ~RechargeSignal(page)
                     /\ ~QuestionSignal(page) /\ ReadingSignal(page) -> "reading"
                [] OTHER -> "content"
        /\ page_type \in {"reading", "content"} => ~QuestionSignal(page)
        /\ frame_ctx = <<>>

C3_Witness ==
    /\ cpc = "classified"
    /\ page.ready /\ ~page.loading_spinner /\ ~page.complete_indicator
    /\ RechargeSignal(page)
    /\ ReadingSignal(page)
    /\ QuestionSignal(page)
    /\ page_type = "recharge"

\* C21: a failing DOM query or element read during classification (stale
\* element or any other driver error) counts as an absent signal and
\* detect_page_type returns a label; no exception leaves detect_page_type.
C21_NoExceptionEscapes ==
    cpc # "ready" =>
        /\ cpc = "classified"
        /\ page_type \in {"loading", "complete", "recharge", "reading", "content",
                          "question", "unknown"}

\* the frame contexts (an embedded frame, or a frame nested one level inside
\* one) whose document holds a question signal
QuestionFrames ==
    { <<i>> : i \in { i \in 1 .. Len(page.frames) : QuestionSignal(page.frames[i]) } }
      \cup UNION { { <<i, j>> : j \in { j \in 1 .. Len(page.frames[i].frames) :
                                          QuestionSignal(page.frames[i].frames[j]) } }
                   : i \in 1 .. Len(page.frames) }

\* C20: when no top-level rule matches and an embedded frame, or a frame
\* nested one level inside an embedded frame, holds a question signal
\* (answer container, choice fieldset, text input, radio or checkbox), the
\* result is question and the driver is left inside such a frame.
C20_QuestionInFrame ==
    (cpc = "classified" /\ DetectRules(page) = "none" /\ QuestionFrames # {}) =>
        /\ page_type = "question"
        /\ frame_ctx \in QuestionFrames

\* ------------------------------------------------------------------------
\* Question extractor: parse_question (src/parser.py)
\* ------------------------------------------------------------------------
\* The controls of a question page, as the selectors see them:
\*   sortable_component, matching_component   container found
\*   sortable_items     texts of the sortable items ("" = no text)
\*   matching_labels    texts of the match-row labels ("" = no text)
\*   matching_drop_zones, matching_choices, choice_rows, radios,
\*   checkboxes, text_inputs, dropdowns       number of elements found
\*   context_parts      lengths of the gathered context texts; equal ids
\*                      stand for equal strings
\* A text is kept by its length where only the length matters.
CONTEXT_CAP == 2000

ELLIPSIS_LEN == 3

Refs(kind, n) == [k \in 1 .. n |-> <<kind, k>>]

RECURSIVE NonEmptyTexts(_)
NonEmptyTexts(texts) ==
    IF texts = <<>> THEN <<>>
    ELSE IF Head(texts) # "" THEN <<Head(texts)>> \o NonEmptyTexts(Tail(texts))
    ELSE NonEmptyTexts(Tail(texts))

\* labels "ABCDEFGHIJ"[i] as character codes ('A' = 27)
ChoiceLabel(i) == 26 + i

_extract_choices_from_rows(choice_rows, input_elements) ==
    [i \in 1 .. choice_rows |->
        [label |-> ChoiceLabel(i),
         element |-> IF i <= Len(input_elements) THEN input_elements[i]
                     ELSE <<"row", i>>]]

_extract_choices_generic(input_elements) ==
    [i \in 1 .. Len(input_elements) |->
        [label |-> ChoiceLabel(i), element |-> input_elements[i]]]

_extract_dropdown_options(dropdowns) ==
    [i \in 1 .. Len(dropdowns) |-> [options |-> <<"opt">>, element |-> dropdowns[i]]]

RECURSIVE Dedup(_, _)
Dedup(parts, seen) ==
    IF parts = <<>> THEN <<>>
    ELSE IF Head(parts).id \in seen THEN Dedup(Tail(parts), seen)
    ELSE <<Head(parts)>> \o Dedup(Tail(parts), seen \cup {Head(parts).id})

RECURSIVE JoinedLen(_)
JoinedLen(parts) ==
    IF parts = <<>> THEN 0
    ELSE IF Len(parts) = 1 THEN Head(parts).len
    ELSE Head(parts).len + 1 + JoinedLen(Tail(parts))

\* _extract_page_context, mutated: the joined text is returned uncut
_extract_page_contextUncut(context_parts) ==
    JoinedLen(Dedup(context_parts, {}))

\* length of the context string returned by _extract_page_context
_extract_page_context(context_parts) ==
    LET joined == JoinedLen(Dedup(context_parts, {}))
    IN  IF joined > CONTEXT_CAP THEN CONTEXT_CAP + ELLIPSIS_LEN ELSE joined

\* QuestionData(), mutated: the choices list is shared between instances
\* and still holds the choices of an earlier question
NewQuestionDataSharedChoices ==
    [type |-> "unknown", question |-> "", context |-> 0,
     choices |-> <<[label |-> 27, element |-> <<"radio", 1>>]>>,
     input_elements |-> <<>>, blank_count |-> 1, items |-> <<>>,
     item_elements |-> <<>>, sources |-> <<>>, targets |-> <<>>,
     source_elements |-> <<>>, target_elements |-> <<>>]

\* QuestionData() with the defaults of the dataclass
NewQuestionData ==
    [type |-> "unknown", question |-> "", context |-> 0, choices |-> <<>>,
     input_elements |-> <<>>, blank_count |-> 1, items |-> <<>>,
     item_elements |-> <<>>, sources |-> <<>>, targets |-> <<>>,
     source_elements |-> <<>>, target_elements |-> <<>>]

\* the dispatch on the standard controls, mutated: radio inputs are tested
\* before checkbox inputs
StandardTypeRadioFirst(c) ==
    IF c.radios > 0 THEN "mc_single"
    ELSE IF c.checkboxes > 0 THEN "mc_multi"
    ELSE IF c.text_inputs > 0 THEN "fill"
    ELSE IF c.dropdowns > 0 THEN "dropdown"
    ELSE "unknown"

\* the if/elif chain on the standard controls
StandardType(c) ==
    IF c.checkboxes > 0 THEN "mc_multi"
    ELSE IF c.radios > 0 THEN "mc_single"
    ELSE IF c.text_inputs > 0 THEN "fill"
    ELSE IF c.dropdowns > 0 THEN "dropdown"
    ELSE "unknown"

parse_question(c) ==
    LET base == [NewQuestionData EXCEPT
                    !.question = c.question_text,
                    !.context = _extract_page_context(c.context_parts)]
    IN  IF c.sortable_component
          THEN [base EXCEPT !.type = "ordering",
                            !.items = NonEmptyTexts(c.sortable_items),
                            !.item_elements = Refs("sortable_item", Len(c.sortable_items))]
        ELSE IF c.matching_component
          THEN [base EXCEPT !.type = "matching",
                            !.sources = NonEmptyTexts(c.matching_labels),
                            !.targets = [k \in 1 .. c.matching_choices |-> "choice"],
                            !.source_elements = Refs("drop_zone", c.matching_drop_zones),
                            !.target_elements = Refs("matching_choice", c.matching_choices)]
        ELSE LET radios     == Refs("radio", c.radios)
                 checkboxes == Refs("checkbox", c.checkboxes)
                 text_inputs == Refs("text_input", c.text_inputs)
                 dropdowns  == Refs("select", c.dropdowns)
                 t          == StandardType(c)
             IN  IF t = "mc_multi"
                   THEN [base EXCEPT !.type = t,
                            !.choices = IF c.choice_rows > 0
                                          THEN _extract_choices_from_rows(c.choice_rows, checkboxes)
                                          ELSE _extract_choices_generic(checkboxes)]
                 ELSE IF t = "mc_single"
                   THEN [base EXCEPT !.type = t,
                            !.choices = IF c.choice_rows > 0
                                          THEN _extract_choices_from_rows(c.choice_rows, radios)
                                          ELSE _extract_choices_generic(radios)]
                 ELSE IF t = "fill"
                   THEN [base EXCEPT !.type = t,
                            !.input_elements = text_inputs,
                            !.blank_count = Len(text_inputs)]
                 ELSE IF t = "dropdown"
                   THEN [base EXCEPT !.type = t,
                            !.input_elements = dropdowns,
                            !.choices = _extract_dropdown_options(dropdowns)]
                 ELSE base

\* ---- inputs -----------------------------------------------------------
ContextPartChoices ==
    { <<>>,
      <<[id |-> 1, len |-> 40]>>,
      <<[id |-> 1, len |-> 40], [id |-> 1, len |-> 40], [id |-> 2, len |-> 1959]>>,
      <<[id |-> 1, len |-> 40], [id |-> 2, len |-> 1960]>>,
      <<[id |-> 3, len |-> 2500]>> }

ControlPages ==
    [sortable_component : BOOLEAN,
     sortable_items : { <<>>, <<"x", "y">>, <<"x", "">> },
     matching_component : BOOLEAN,
     matching_labels : { <<>>, <<"l", "m">> },
     matching_drop_zones : {0, 2},
     matching_choices : {0, 2},
     choice_rows : {0, 2, 3},
     radios : {0, 2},
     checkboxes : {0, 2},
     text_inputs : {0, 1, 2},
     dropdowns : {0, 1},
     question_text : {"", "q"},
     context_parts : ContextPartChoices]

\* pages whose items, labels, drop zones and draggable choices live inside
\* their container
WellFormedControls(c) ==
    /\ ~c.sortable_component => c.sortable_items = <<>>
    /\ ~c.matching_component =>
          c.matching_labels = <<>> /\ c.matching_drop_zones = 0 /\ c.matching_choices = 0

InitParse ==
    /\ controls \in { c \in ControlPages : WellFormedControls(c) }
    /\ qd = <<>>
    /\ ppc = "ready"
    /\ OrdIdle
    /\ ClsIdle
    /\ LoopIdle
    /\ ActIdle
    /\ FzIdle
    /\ IntIdle
    /\ ExtIdle

\* one call of parse_question
ParseQuestion ==
    /\ ppc = "ready"
    /\ qd' = parse_question(controls)
    /\ ppc' = "parsed"
    /\ UNCHANGED controls
    /\ UNCHANGED <<ordVars, clsVars, loopVars, actVars, fzVars, intVars, extVars>>

NextParse == ParseQuestion

SpecParse == InitParse /\ [][NextParse]_vars

\* ---- properties -------------------------------------------------------
QuestionKinds ==
    {"ordering", "matching", "mc_multi", "mc_single", "fill", "dropdown", "unknown"}

\* C4: parse_question returns exactly one kind, chosen by the first matching
\* rule in the order ordering, matching, mc_multi, mc_single, fill,
\* dropdown, and unknown when no control exists.
C4_TypePriority ==
    ppc = "parsed" =>
        /\ qd.type \in QuestionKinds
        /\ qd.type =
             CASE controls.sortable_component -> "ordering"
               [] ~controls.sortable_component /\ controls.matching_component -> "matching"
               [] ~controls.sortable_component /\ ~controls.matching_component
                    /\ controls.checkboxes > 0 -> "mc_multi"
               [] ~controls.sortable_component /\ ~controls.matching_component
                    /\ controls.checkboxes = 0 /\ controls.radios > 0 -> "mc_single"
               [] ~controls.sortable_component /\ ~controls.matching_component
                    /\ controls.checkboxes = 0 /\ controls.radios = 0
                    /\ controls.text_inputs > 0 -> "fill"
               [] ~controls.sortable_component /\ ~controls.matching_component
                    /\ controls.checkboxes = 0 /\ controls.radios = 0
                    /\ controls.text_inputs = 0 /\ controls.dropdowns > 0 -> "dropdown"
               [] OTHER -> "unknown"

C4_Witness ==
    /\ ppc = "parsed"
    /\ ~controls.sortable_component /\ ~controls.matching_component
    /\ controls.checkboxes > 0 /\ controls.radios > 0 /\ controls.text_inputs > 0
    /\ controls.dropdowns > 0
    /\ qd.type = "mc_multi"

\* C18: every QuestionData returned by parse_question has only the fields
\* of its own kind populated: choices only for mc_single, mc_multi and
\* dropdown, input refs only for fill and dropdown, items and item refs
\* only for ordering, source/target labels and refs only for matching, and
\* none of them for unknown.
C18_OnlyOwnFields ==
    ppc = "parsed" =>
        /\ qd.choices # <<>> => qd.type \in {"mc_single", "mc_multi", "dropdown"}
        /\ qd.input_elements # <<>> => qd.type \in {"fill", "dropdown"}
        /\ (qd.items # <<>> \/ qd.item_elements # <<>>) => qd.type = "ordering"
        /\ (qd.sources # <<>> \/ qd.targets # <<>> \/ qd.source_elements # <<>>
               \/ qd.target_elements # <<>>) => qd.type = "matching"
        /\ qd.type = "unknown" =>
              /\ qd.choices = <<>> /\ qd.input_elements = <<>>
              /\ qd.items = <<>> /\ qd.item_elements = <<>>
              /\ qd.sources = <<>> /\ qd.targets = <<>>
              /\ qd.source_elements = <<>> /\ qd.target_elements = <<>>

\* length of the gathered context text: the distinct parts joined by newlines
GatheredLen == JoinedLen(Dedup(controls.context_parts, {}))

\* C22 as stated: the context stored in the QuestionData is at most 2000
\* characters long.
C22_ContextAtMostCap ==
    ppc = "parsed" => qd.context <= CONTEXT_CAP

\* C22 amended: gathered text of at most 2000 characters is stored whole;
\* longer text is cut to its first 2000 characters followed by the
\* three-character marker "...", so the stored context is at most 2003
\* characters long.
C22_ContextCutPlusMarker ==
    ppc = "parsed" =>
        /\ qd.context <= CONTEXT_CAP + ELLIPSIS_LEN
        /\ GatheredLen <= CONTEXT_CAP => qd.context = GatheredLen
        /\ GatheredLen > CONTEXT_CAP => qd.context = CONTEXT_CAP + ELLIPSIS_LEN

C22_Witness ==
    /\ ppc = "parsed"
    /\ GatheredLen = CONTEXT_CAP + 1
    /\ qd.context = CONTEXT_CAP + ELLIPSIS_LEN

\* an ordering page that also shows matching, choice and input controls
C18_Witness ==
    /\ ppc = "parsed"
    /\ controls.sortable_component /\ controls.matching_component
    /\ controls.matching_choices > 0 /\ controls.radios > 0 /\ controls.text_inputs > 0
    /\ qd.type = "ordering"
    /\ qd.item_elements # <<>>
    /\ qd.choices = <<>> /\ qd.input_elements = <<>>
    /\ qd.targets = <<>> /\ qd.target_elements = <<>>

\* ------------------------------------------------------------------------
\* Lifecycle loop and its control thread: on_start, solve_loop, on_pause,
\* on_stop (src/main.py) and SolverGUI._on_start/_on_pause/_on_stop
\* (src/gui.py).  The Tk thread runs the button handlers and the callbacks
\* queued with root.after; every Start creates one worker thread that runs
\* on_start and then solve_loop.  The counters that only feed the log
\* (question_num, correct_num, consecutive_unknown) are left out.
\* ------------------------------------------------------------------------
MaxStarts == 2

Workers == 1 .. started

\* positions of solve_loop at which the worker sleeps: time.sleep,
\* human.random_delay, human.reading_delay
DelayPcs ==
    {"pause_sleep", "sleep_retry", "reading_pre_delay", "skip_delay", "reading_delay",
     "backoff", "submit_delay", "next_delay", "iter_delay", "error_sleep"}

\* positions at which the worker calls the oracle
OraclePcs == {"oracle1", "oracle2"}

\* positions at which the worker operates the page
UiOpPcs == {"recharge_op", "advance_op", "skip_advance", "execute", "submit", "next_question"}

\* positions inside solve_loop
LoopPcs ==
    DelayPcs \cup OraclePcs \cup UiOpPcs \cup {"loop_top", "poll", "scroll", "cleanup"}

\* what one poll of the page can show the loop
Observations ==
    {"not_ready", "loading", "complete", "recharge", "reading", "content", "unknown",
     "question", "question_unknown"}

\* outcomes of solver.get_answer: an action, PermissionError (HTTP 403), or
\* any other exception
OracleOutcomes == {"ok", "unauthorized", "error"}

\* where the loop goes after classifying the page and parsing the question
AfterPoll(obs) ==
    CASE obs \in {"not_ready", "loading", "unknown"} -> "sleep_retry"
      [] obs = "complete"         -> "cleanup"
      [] obs = "recharge"         -> "recharge_op"
      [] obs = "reading"          -> "reading_pre_delay"
      [] obs = "content"          -> "loop_top"
      [] obs = "question_unknown" -> "skip_delay"
      [] obs = "question"         -> "reading_delay"

\* the statement that follows each sleep
AfterDelay(p) ==
    CASE p \in {"pause_sleep", "sleep_retry", "iter_delay", "error_sleep"} -> "loop_top"
      [] p \in {"reading_pre_delay", "skip_delay"} -> "advance_op"
      [] p = "reading_delay" -> "scroll"
      [] p = "backoff"       -> "oracle2"
      [] p = "submit_delay"  -> "submit"
      [] p = "next_delay"    -> "next_question"

\* the statement that follows each page operation that did not raise
AfterUiOp(p) ==
    CASE p \in {"recharge_op", "advance_op", "skip_advance", "next_question"} -> "iter_delay"
      [] p = "execute" -> "submit_delay"
      [] p = "submit"  -> "next_delay"

\* page operations that raise when the driver handle is None; the others
\* catch or never touch the handle
RaisesWithoutDriver(p) == p \in {"advance_op", "skip_advance", "submit", "next_question"}

\* the except clauses around get_answer, mutated: the retry is retried too
OnOracleErrorRetryAgain(p) == "backoff"

\* the except clauses around get_answer: the first failure leads to the
\* pause and the retry, the second to skipping the question
OnOracleError(p) == IF p = "oracle1" THEN "backoff" ELSE "skip_advance"

InitLoop ==
    /\ stop_flag = FALSE
    /\ pause_flag = FALSE
    /\ driver = "none"
    /\ is_running = FALSE
    /\ is_paused = FALSE
    /\ start_btn = "normal"
    /\ stop_btn = "disabled"
    /\ after_queue = 0
    /\ started = 0
    /\ pc = <<>>
    /\ calls = <<>>
    /\ fails = <<>>
    /\ acted = <<>>
    /\ last_error = <<>>
    /\ stop_in_delay = <<>>
    /\ OrdIdle
    /\ ClsIdle
    /\ PqIdle
    /\ ActIdle
    /\ FzIdle
    /\ IntIdle
    /\ ExtIdle

\* ---- Tk thread --------------------------------------------------------
\* SolverGUI._on_start: the Start button
GuiStart ==
    /\ start_btn = "normal"
    /\ started < MaxStarts
    /\ is_running' = TRUE
    /\ is_paused' = FALSE
    /\ start_btn' = "disabled"
    /\ stop_btn' = "normal"
    /\ started' = started + 1
    /\ pc' = Append(pc, "on_start")
    /\ calls' = Append(calls, 0)
    /\ fails' = Append(fails, 0)
    /\ acted' = Append(acted, FALSE)
    /\ last_error' = Append(last_error, "none")
    /\ stop_in_delay' = Append(stop_in_delay, FALSE)
    /\ UNCHANGED <<stop_flag, pause_flag, driver, after_queue>>
    /\ UNCHANGED <<ordVars, clsVars, pqVars, actVars, fzVars, intVars, extVars>>

\* SolverGUI._on_pause and main.on_pause: the Pause/Resume button
GuiPause ==
    /\ stop_btn = "normal"
    /\ is_paused' = ~is_paused
    /\ pause_flag' = ~is_paused
    /\ UNCHANGED <<stop_flag, driver, is_running, start_btn, stop_btn, after_queue,
                   started, pc, calls, fails, acted, last_error, stop_in_delay>>
    /\ UNCHANGED <<ordVars, clsVars, pqVars, actVars, fzVars, intVars, extVars>>

\* the body of SolverGUI._on_stop with main.on_stop
OnStopBody ==
    /\ is_running' = FALSE
    /\ is_paused' = FALSE
    /\ start_btn' = "normal"
    /\ stop_btn' = "disabled"
    /\ stop_flag' = TRUE
    /\ driver' = "none"
    /\ stop_in_delay' = [t \in Workers |-> stop_in_delay[t] \/ pc[t] \in DelayPcs]
    /\ UNCHANGED <<pause_flag, started, pc, calls, fails, acted, last_error>>
    /\ UNCHANGED <<ordVars, clsVars, pqVars, actVars, fzVars, intVars, extVars>>

\* the Stop button
GuiStop ==
    /\ stop_btn = "normal"
    /\ OnStopBody
    /\ UNCHANGED after_queue

\* a gui._on_stop callback queued by a worker with root.after(0, ...)
GuiAfterStop ==
    /\ after_queue > 0
    /\ after_queue' = after_queue - 1
    /\ OnStopBody

\* ---- worker thread ----------------------------------------------------
\* on_start: the flags are cleared
WorkerOnStart(t) ==
    /\ pc[t] = "on_start"
    /\ stop_flag' = FALSE
    /\ pause_flag' = FALSE
    /\ pc' = [pc EXCEPT ![t] = "connecting"]
    /\ UNCHANGED <<driver, is_running, is_paused, start_btn, stop_btn, after_queue,
                   started, calls, fails, acted, last_error, stop_in_delay>>
    /\ UNCHANGED <<ordVars, clsVars, pqVars, actVars, fzVars, intVars, extVars>>

\* on_start: solver.init_client and browser.connect_to_browser; on failure
\* gui._on_stop is queued and the thread ends
WorkerConnect(t) ==
    /\ pc[t] = "connecting"
    /\ \/ /\ driver' = "chrome"
          /\ pc' = [pc EXCEPT ![t] = "loop_top"]
          /\ UNCHANGED after_queue
       \/ /\ after_queue' = after_queue + 1
          /\ pc' = [pc EXCEPT ![t] = "ended"]
          /\ UNCHANGED driver
    /\ UNCHANGED <<stop_flag, pause_flag, is_running, is_paused, start_btn, stop_btn,
                   started, calls, fails, acted, last_error, stop_in_delay>>
    /\ UNCHANGED <<ordVars, clsVars, pqVars, actVars, fzVars, intVars, extVars>>

\* solve_loop: "while not stop_flag", the pause wait and "if stop_flag: break";
\* a new iteration begins
LoopTop(t) ==
    /\ pc[t] = "loop_top"
    /\ pc' = [pc EXCEPT ![t] = IF stop_flag THEN "cleanup"
                                ELSE IF pause_flag THEN "pause_sleep"
                                ELSE "poll"]
    /\ calls' = [calls EXCEPT ![t] = 0]
    /\ fails' = [fails EXCEPT ![t] = 0]
    /\ acted' = [acted EXCEPT ![t] = FALSE]
    /\ last_error' = [last_error EXCEPT ![t] = "none"]
    /\ stop_in_delay' = [stop_in_delay EXCEPT ![t] = FALSE]
    /\ UNCHANGED <<stop_flag, pause_flag, driver, is_running, is_paused, start_btn,
                   stop_btn, after_queue, started>>
    /\ UNCHANGED <<ordVars, clsVars, pqVars, actVars, fzVars, intVars, extVars>>

\* solve_loop: is_page_ready, detect_page_type and parse_question
Poll(t) ==
    /\ pc[t] = "poll"
    /\ \E obs \in Observations :
          pc' = [pc EXCEPT ![t] = IF driver = "none" THEN AfterPoll("not_ready")
                                   ELSE AfterPoll(obs)]
    /\ UNCHANGED <<stop_flag, pause_flag, driver, is_running, is_paused, start_btn,
                   stop_btn, after_queue, started, calls, fails, acted, last_error,
                   stop_in_delay>>
    /\ UNCHANGED <<ordVars, clsVars, pqVars, actVars, fzVars, intVars, extVars>>

\* a sleep returns: time.sleep, random_delay, reading_delay
DelayEnds(t) ==
    /\ pc[t] \in DelayPcs
    /\ pc' = [pc EXCEPT ![t] = AfterDelay(pc[t])]
    /\ calls' = [calls EXCEPT ![t] = IF pc[t] = "backoff" THEN calls[t] + 1 ELSE calls[t]]
    /\ UNCHANGED <<stop_flag, pause_flag, driver, is_running, is_paused, start_btn,
                   stop_btn, after_queue, started, fails, acted, last_error,
                   stop_in_delay>>
    /\ UNCHANGED <<ordVars, clsVars, pqVars, actVars, fzVars, intVars, extVars>>

\* human.random_scroll, then the first solver.get_answer is started
RandomScroll(t) ==
    /\ pc[t] = "scroll"
    /\ \E scrolls \in BOOLEAN :
          IF scrolls /\ driver = "none"
            THEN /\ pc' = [pc EXCEPT ![t] = "error_sleep"]
                 /\ UNCHANGED calls
          ELSE /\ pc' = [pc EXCEPT ![t] = "oracle1"]
               /\ calls' = [calls EXCEPT ![t] = calls[t] + 1]
    /\ UNCHANGED <<stop_flag, pause_flag, driver, is_running, is_paused, start_btn,
                   stop_btn, after_queue, started, fails, acted, last_error,
                   stop_in_delay>>
    /\ UNCHANGED <<ordVars, clsVars, pqVars, actVars, fzVars, intVars, extVars>>

\* solver.get_answer returns or raises
GetAnswer(t) ==
    /\ pc[t] \in OraclePcs
    /\ \E outcome \in OracleOutcomes :
          IF outcome = "ok"
            THEN /\ pc' = [pc EXCEPT ![t] = "execute"]
                 /\ UNCHANGED <<fails, last_error>>
          ELSE /\ pc' = [pc EXCEPT ![t] = OnOracleError(pc[t])]
               /\ fails' = [fails EXCEPT ![t] = fails[t] + 1]
               /\ last_error' = [last_error EXCEPT ![t] = outcome]
    /\ UNCHANGED <<stop_flag, pause_flag, driver, is_running, is_paused, start_btn,
                   stop_btn, after_queue, started, calls, acted, stop_in_delay>>
    /\ UNCHANGED <<ordVars, clsVars, pqVars, actVars, fzVars, intVars, extVars>>

\* a page operation of the loop: handle_recharge_page, click_next_button,
\* _execute_action, submit_with_confidence, click_next_question
UiOp(t) ==
    /\ pc[t] \in UiOpPcs
    /\ pc' = [pc EXCEPT ![t] = IF driver = "none" /\ RaisesWithoutDriver(pc[t])
                                 THEN "error_sleep"
                               ELSE AfterUiOp(pc[t])]
    /\ acted' = [acted EXCEPT ![t] = acted[t] \/ pc[t] = "execute"]
    /\ UNCHANGED <<stop_flag, pause_flag, driver, is_running, is_paused, start_btn,
                   stop_btn, after_queue, started, calls, fails, last_error,
                   stop_in_delay>>
    /\ UNCHANGED <<ordVars, clsVars, pqVars, actVars, fzVars, intVars, extVars>>

\* solve_loop: the statements after the while loop
Cleanup(t) ==
    /\ pc[t] = "cleanup"
    /\ driver' = "none"
    /\ after_queue' = after_queue + 1
    /\ pc' = [pc EXCEPT ![t] = "ended"]
    /\ UNCHANGED <<stop_flag, pause_flag, is_running, is_paused, start_btn, stop_btn,
                   started, calls, fails, acted, last_error, stop_in_delay>>
    /\ UNCHANGED <<ordVars, clsVars, pqVars, actVars, fzVars, intVars, extVars>>

NextLoop ==
    \/ GuiStart
    \/ GuiPause
    \/ GuiStop
    \/ GuiAfterStop
    \/ \E t \in Workers : WorkerOnStart(t)
    \/ \E t \in Workers : WorkerConnect(t)
    \/ \E t \in Workers : LoopTop(t)
    \/ \E t \in Workers : Poll(t)
    \/ \E t \in Workers : DelayEnds(t)
    \/ \E t \in Workers : RandomScroll(t)
    \/ \E t \in Workers : GetAnswer(t)
    \/ \E t \in Workers : UiOp(t)
    \/ \E t \in Workers : Cleanup(t)

SpecLoop == InitLoop /\ [][NextLoop]_vars

\* ---- properties -------------------------------------------------------
\* the worker threads that are executing solve_loop
InSolveLoop == { t \in Workers : pc[t] \in LoopPcs }

\* C5: across any interleaving of Start, Stop and Pause with the loop
\* thread, at most one solve_loop is executing at any time.
C5_SingleLoop == Cardinality(InSolveLoop) <= 1

\* C6: a stop request raised while the loop sleeps in a pacing delay is
\* observed during that delay: afterwards the loop starts no further oracle
\* call and no further page operation on a connected driver in the current
\* iteration.
C6_StopSeenInDelay ==
    \A t \in Workers :
        stop_in_delay[t] =>
            /\ pc[t] \notin OraclePcs
            /\ ~(pc[t] \in UiOpPcs /\ driver = "chrome")

\* C9: in one iteration the oracle is called at most twice: a failed call
\* is followed by exactly one retry after the pause, and when the retry
\* fails too the question is skipped with no action executed.
C9_AtMostOneRetry ==
    \A t \in Workers :
        /\ calls[t] <= 2
        /\ fails[t] <= calls[t]
        /\ pc[t] = "backoff" => (calls[t] = 1 /\ fails[t] = 1)
        /\ pc[t] = "oracle2" => (calls[t] = 2 /\ fails[t] = 1)
        /\ pc[t] = "skip_advance" => (calls[t] = 2 /\ fails[t] = 2 /\ ~acted[t])
        /\ acted[t] => fails[t] < calls[t]
        /\ (fails[t] = 2 /\ pc[t] \in LoopPcs) =>
              pc[t] \in {"skip_advance", "iter_delay", "error_sleep", "loop_top"}

C9_Witness ==
    \E t \in Workers :
        /\ pc[t] = "skip_advance"
        /\ calls[t] = 2
        /\ fails[t] = 2
        /\ ~acted[t]

\* C10: when the oracle reports HTTP 403 (unauthorized or expired key) the
\* loop aborts the run at once: no retry, no action, no further question.
C10_AbortOnUnauthorized ==
    \A t \in Workers : last_error[t] = "unauthorized" => pc[t] \in {"cleanup", "ended"}

\* ------------------------------------------------------------------------
\* Multi-item actions: multi_click, multi_type and dropdown as executed by
\* _execute_action (src/main.py) and by actions.execute (src/actions.py)
\* ------------------------------------------------------------------------
MaxTargets == 3
MaxDevices == 2
MaxHandlers == 2

TargetStates == {"live", "stale", "no_option"}

TargetLists == UNION { [1 .. n -> TargetStates] : n \in 1 .. MaxTargets }

\* number of items the loop iterates over: the targets, or
\* zip(targets, values)
ItemCount(type, targets, values) ==
    IF type = "multi_click" THEN Len(targets) ELSE Min2(Len(targets), values)

\* what handling one item does: "ok" (the interaction was dispatched),
\* "skipped" (the failure was caught and the loop goes on), or "raise" (the
\* exception leaves the executor)
ItemResult(executor, type, target) ==
    CASE type = "multi_click" ->
            \* _click_choice: execute_script on the element, no try
            IF target = "stale" THEN "raise" ELSE "ok"
      [] type = "multi_type" ->
            \* execute_script focus/click and value assignment, no try
            IF target = "stale" THEN "raise" ELSE "ok"
      [] type = "dropdown" ->
            IF target = "live" THEN "ok"
            ELSE IF target = "no_option" THEN "skipped"
            \* stale: Select(target) raises; the partial-match fallback reads
            \* the options of the same element and raises again, which only
            \* actions.py catches
            ELSE IF executor = "actions" THEN "skipped" ELSE "raise"

InitAction ==
    /\ act_executor \in {"main", "actions"}
    /\ act_type \in {"multi_click", "multi_type", "dropdown"}
    /\ act_targets \in TargetLists
    /\ act_values \in {Len(act_targets), Len(act_targets) - 1}
    /\ act_i = 0
    /\ attempted = {}
    /\ apc = "run"
    /\ OrdIdle
    /\ ClsIdle
    /\ PqIdle
    /\ LoopIdle
    /\ FzIdle
    /\ IntIdle
    /\ ExtIdle

\* one iteration of the per-item loop of the action
ActionItem ==
    /\ apc = "run"
    /\ act_i < ItemCount(act_type, act_targets, act_values)
    /\ attempted' = attempted \cup {act_i}
    /\ IF ItemResult(act_executor, act_type, At(act_targets, act_i)) = "raise"
         THEN /\ apc' = "raised"
              /\ UNCHANGED act_i
       ELSE /\ act_i' = act_i + 1
            /\ UNCHANGED apc
    /\ UNCHANGED <<act_executor, act_type, act_targets, act_values>>
    /\ UNCHANGED <<ordVars, clsVars, pqVars, loopVars, fzVars, intVars, extVars>>

\* the loop is exhausted
ActionEnd ==
    /\ apc = "run"
    /\ act_i >= ItemCount(act_type, act_targets, act_values)
    /\ apc' = "done"
    /\ UNCHANGED <<act_executor, act_type, act_targets, act_values, act_i, attempted>>
    /\ UNCHANGED <<ordVars, clsVars, pqVars, loopVars, fzVars, intVars, extVars>>

NextAction == ActionItem \/ ActionEnd

SpecAction == InitAction /\ [][NextAction]_vars

\* C8: in a multi-item action a failure on one item (a stale reference, an
\* unresolved match) is skipped and all remaining items are still attempted:
\* the action never ends before every item has been attempted.
C8_AllItemsAttempted ==
    apc \in {"done", "raised"} =>
        attempted = Range0(ItemCount(act_type, act_targets, act_values))

\* ------------------------------------------------------------------------
\* fuzzy_match on its own (src/main.py, src/actions.py): one call with an
\* oracle text and a list of original item texts
\* ------------------------------------------------------------------------
TxtAb == <<1, 2>>

TxtAbPadded == <<SPACE, 27, 2, SPACE>>

TxtAbc == <<1, 2, 3>>

TxtAbcd == <<1, 2, 3, 4>>

TxtBc == <<2, 3>>

TxtXy == <<24, 25>>

TxtAbcxydef == <<1, 2, 3, 24, 25, 4, 5, 6>>

TxtPhotosyn == <<16, 8, 15, 20, 15, 19, 25, 14>>

TxtPhotosynthesis == <<16, 8, 15, 20, 15, 19, 25, 14, 20, 8, 5, 19, 9, 19>>

TxtRespiration == <<18, 5, 19, 16, 9, 18, 1, 20, 9, 15, 14>>

FuzzyTexts ==
    { <<>>, <<SPACE>>, TxtAb, TxtAbPadded, TxtAbc, TxtAbcd, TxtBc, TxtXy,
      TxtPhotosyn, <<1, 2, 3, 4, 5>> }

FuzzyPool == { <<>>, TxtAb, TxtAbPadded, TxtAbc, TxtAbcd, TxtAbcxydef }

FuzzyLists ==
    { <<a>> : a \in FuzzyPool }
      \cup { <<a, b>> : a \in FuzzyPool, b \in FuzzyPool }
      \cup { <<a, b, c>> : a \in FuzzyPool, b \in FuzzyPool, c \in FuzzyPool }
      \cup { <<>>, <<TxtPhotosynthesis, TxtRespiration>> }

InitFuzzy ==
    /\ fm_text \in FuzzyTexts
    /\ fm_items \in FuzzyLists
    /\ fm_result = -1
    /\ fpc = "ready"
    /\ OrdIdle
    /\ ClsIdle
    /\ PqIdle
    /\ LoopIdle
    /\ ActIdle
    /\ IntIdle
    /\ ExtIdle

\* one call of fuzzy_match
FuzzyMatch ==
    /\ fpc = "ready"
    /\ fm_result' = fuzzy_match(fm_text, fm_items)
    /\ fpc' = "done"
    /\ UNCHANGED <<fm_text, fm_items>>
    /\ UNCHANGED <<ordVars, clsVars, pqVars, loopVars, actVars, intVars, extVars>>

NextFuzzy == FuzzyMatch

SpecFuzzy == InitFuzzy /\ [][NextFuzzy]_vars

\* ---- properties -------------------------------------------------------
\* the compared forms: lower case, surrounding whitespace removed
FmNorm(t) == Strip(Lower(t))

FmExact == { i \in Range0(Len(fm_items)) : FmNorm(At(fm_items, i)) = FmNorm(fm_text) }

FmCandidates ==
    { i \in Range0(Len(fm_items)) :
        \/ Contains(FmNorm(At(fm_items, i)), FmNorm(fm_text))
        \/ Contains(FmNorm(fm_text), FmNorm(At(fm_items, i))) }

FmMin(i) == Min2(Len(FmNorm(fm_text)), Len(FmNorm(At(fm_items, i))))

FmMax(i) == Max2(Len(FmNorm(fm_text)), Len(FmNorm(At(fm_items, i))))

\* C11: fuzzy_match returns the first item equal to the oracle text (case
\* and surrounding whitespace ignored) when there is one; otherwise, when
\* some item that contains the text or is contained in it has a ratio
\* min(len)/max(len) above 0.5, the index of a candidate of highest ratio;
\* otherwise -1.  'photosyn' against ['photosynthesis', 'respiration'] gives
\* 0 and 'xy' against ['abcxydef'] gives -1.
C11_FuzzyMatch ==
    fpc = "done" =>
        /\ FmExact # {} =>
              /\ fm_result \in FmExact
              /\ \A j \in FmExact : fm_result <= j
        /\ (FmExact = {} /\ \E i \in FmCandidates : 2 * FmMin(i) > FmMax(i)) =>
              /\ fm_result \in FmCandidates
              /\ \A j \in FmCandidates :
                    FmMin(fm_result) * FmMax(j) >= FmMin(j) * FmMax(fm_result)
        /\ (FmExact = {} /\ \A i \in FmCandidates : 2 * FmMin(i) <= FmMax(i)) =>
              fm_result = -1
        /\ (fm_text = TxtPhotosyn /\ fm_items = <<TxtPhotosynthesis, TxtRespiration>>)
              => fm_result = 0
        /\ (fm_text = TxtXy /\ fm_items = <<TxtAbcxydef>>) => fm_result = -1

C11_Witness ==
    /\ fpc = "done"
    /\ fm_text = TxtPhotosyn
    /\ fm_items = <<TxtPhotosynthesis, TxtRespiration>>
    /\ FmExact = {}
    /\ fm_result = 0

\* ------------------------------------------------------------------------
\* Answer interpreter: _extract_answer_line and parse_gpt_response
\* (src/solver.py).  Strings are sequences of character codes; the regular
\* expressions are computed as the re module matches them.
\* ------------------------------------------------------------------------
\* str.upper()
UpperChar(c) == IF c >= 1 /\ c <= 26 THEN c + 26 ELSE c

Upper(s) == [k \in 1 .. Len(s) |-> UpperChar(s[k])]

\* str.replace(c, "") for a one-character c
RECURSIVE RemoveChar(_, _)
RemoveChar(s, c) ==
    IF s = <<>> THEN <<>>
    ELSE IF Head(s) = c THEN RemoveChar(Tail(s), c)
    ELSE <<Head(s)>> \o RemoveChar(Tail(s), c)

\* str.find(sub): 1-based index of the first occurrence of sub, 0 if none
FindSub(s, sub) ==
    LET hits == { k \in 1 .. (Len(s) - Len(sub) + 1) : SubSeq(s, k, k + Len(sub) - 1) = sub }
    IN  IF hits = {} THEN 0 ELSE CHOOSE k \in hits : \A j \in hits : k <= j

\* str.split(sep) for a one-character sep
RECURSIVE Split(_, _)
Split(s, sep) ==
    LET k == FindSub(s, <<sep>>)
    IN  IF k = 0 THEN <<s>>
        ELSE <<SubSeq(s, 1, k - 1)>> \o Split(SubSeq(s, k + 1, Len(s)), sep)

\* str.split(sub, 1) when sub occurs in s: the parts before and after the
\* first occurrence
SplitOnce(s, sub) ==
    LET k == FindSub(s, sub)
    IN  <<SubSeq(s, 1, k - 1), SubSeq(s, k + Len(sub), Len(s))>>

\* str.lstrip("- ")
RECURSIVE LStripDashSpace(_)
LStripDashSpace(s) ==
    IF s # <<>> /\ (Head(s) = DASH \/ Head(s) = SPACE) THEN LStripDashSpace(Tail(s)) ELSE s

\* [l.strip() for l in lines if l.strip()]
RECURSIVE StrippedNonEmpty(_)
StrippedNonEmpty(parts) ==
    IF parts = <<>> THEN <<>>
    ELSE IF Strip(Head(parts)) # <<>>
      THEN <<Strip(Head(parts))>> \o StrippedNonEmpty(Tail(parts))
    ELSE StrippedNonEmpty(Tail(parts))

\* the marker "answer:" in lower case
ANSWER_MARKER == <<1, 14, 19, 23, 5, 18, COLON>>

ARROW == <<DASH, GT>>

\* (?i)ANSWER: matches at the 1-based position p
MarkerAt(text, p) ==
    /\ p + Len(ANSWER_MARKER) - 1 <= Len(text)
    /\ Lower(SubSeq(text, p, p + Len(ANSWER_MARKER) - 1)) = ANSWER_MARKER

\* ^ under re.MULTILINE
LineStart(text, p) == p = 1 \/ text[p - 1] = NL

\* number of whitespace characters from position q on (greedy \s*)
RECURSIVE SpaceRun(_, _)
SpaceRun(text, q) ==
    IF q <= Len(text) /\ IsSpace(text[q]) THEN 1 + SpaceRun(text, q + 1) ELSE 0

\* end of the line that holds position q: the last position before the next
\* newline
RECURSIVE LineEnd(_, _)
LineEnd(text, q) ==
    IF q + 1 <= Len(text) /\ text[q + 1] # NL THEN LineEnd(text, q + 1) ELSE q

\* \s*(.+)$ from position q: \s* takes k characters, k tried from the
\* longest run down; (.+) needs a character that is not a newline.  The
\* start of group 1, or 0 when every k fails.
RECURSIVE GroupStart(_, _, _)
GroupStart(text, q, k) ==
    IF k < 0 THEN 0
    ELSE IF q + k <= Len(text) /\ text[q + k] # NL THEN q + k
    ELSE GroupStart(text, q, k - 1)

\* re.search(r'(?i)^ANSWER:\s*(.+)$', text, re.MULTILINE): group 1 of the
\* leftmost match, from position p on; <<FALSE, "">> when there is none
RECURSIVE SearchAnswerLine(_, _)
SearchAnswerLine(text, p) ==
    IF p > Len(text) THEN [found |-> FALSE, group |-> <<>>]
    ELSE IF LineStart(text, p) /\ MarkerAt(text, p)
      THEN LET q == p + Len(ANSWER_MARKER)
               g == GroupStart(text, q, SpaceRun(text, q))
           IN  IF g > 0
                 THEN [found |-> TRUE, group |-> SubSeq(text, g, LineEnd(text, g))]
               ELSE SearchAnswerLine(text, p + 1)
    ELSE SearchAnswerLine(text, p + 1)

_extract_answer_line(response_text) ==
    LET text  == Strip(response_text)
        match == SearchAnswerLine(text, 1)
        lines == StrippedNonEmpty(Split(text, NL))
    IN  IF match.found THEN Strip(match.group)
        ELSE IF lines # <<>> THEN lines[Len(lines)]
        ELSE text

\* str.join(sep, parts)
RECURSIVE Join(_, _)
Join(parts, sep) ==
    IF parts = <<>> THEN <<>>
    ELSE IF Len(parts) = 1 THEN Head(parts)
    ELSE Head(parts) \o sep \o Join(Tail(parts), sep)

\* re.search(r'(?i)ANSWER:\s*\n?([\s\S]+)$', text): the start of group 1 of
\* the leftmost match, 0 when there is none.  With k the longest run of
\* whitespace after the marker, group 1 starts behind the run when a
\* character follows it, and otherwise is the last character of the run.
RECURSIVE SearchAnswerBlock(_, _)
SearchAnswerBlock(text, p) ==
    IF p > Len(text) THEN 0
    ELSE IF MarkerAt(text, p)
      THEN LET q == p + Len(ANSWER_MARKER)
               k == SpaceRun(text, q)
           IN  IF q + k <= Len(text) THEN q + k
               ELSE IF k >= 1 THEN q + k - 1
               ELSE SearchAnswerBlock(text, p + 1)
    ELSE SearchAnswerBlock(text, p + 1)

\* the text the ordering and matching branches parse
IsolateAnswer(response_text) ==
    LET text == Strip(response_text)
        g    == SearchAnswerBlock(text, 1)
    IN  IF g > 0 THEN Strip(SubSeq(text, g, Len(text))) ELSE text

\* number of digits from position q on (greedy \d+)
RECURSIVE DigitRun(_, _)
DigitRun(text, q) ==
    IF q <= Len(text) /\ IsDigit(text[q]) THEN 1 + DigitRun(text, q + 1) ELSE 0

\* re.sub(r'^\d+[<closers>]\s*', '', line)
SubNumbering(line, closers) ==
    LET d == DigitRun(line, 1)
    IN  IF d >= 1 /\ d + 1 <= Len(line) /\ line[d + 1] \in closers
          THEN SubSeq(line, d + 2 + SpaceRun(line, d + 2), Len(line))
        ELSE line

\* re.sub(r'^-\s*', '', line)
SubDash(line) ==
    IF line # <<>> /\ line[1] = DASH
      THEN SubSeq(line, 2 + SpaceRun(line, 2), Len(line))
    ELSE line

\* the loop over the lines of an ordering answer
RECURSIVE OrderingLines(_)
OrderingLines(lines) ==
    IF lines = <<>> THEN <<>>
    ELSE LET line == Strip(Head(lines))
             item == Strip(SubDash(Strip(SubNumbering(line, {DOT, RPAREN, COLON}))))
         IN  IF line = <<>> THEN OrderingLines(Tail(lines))
             ELSE IF item # <<>> THEN <<item>> \o OrderingLines(Tail(lines))
             ELSE OrderingLines(Tail(lines))

\* one line of a matching answer, mutated: the two sides are not stripped
ParseMatchLineNoStrip(line) ==
    IF Contains(line, ARROW)
      THEN LET parts == SplitOnce(line, ARROW)
           IN  <<[source |-> parts[1], target |-> parts[2]]>>
    ELSE IF Contains(line, <<COLON>>) /\ ~IsDigit(line[1])
      THEN LET parts == SplitOnce(line, <<COLON>>)
           IN  <<[source |-> parts[1], target |-> parts[2]]>>
    ELSE <<>>

\* one (stripped) line of a matching answer: the pair it yields, if any
ParseMatchLine(line) ==
    IF Contains(line, ARROW)
      THEN LET parts == SplitOnce(line, ARROW)
           IN  <<[source |-> LStripDashSpace(Strip(parts[1])), target |-> Strip(parts[2])]>>
    ELSE IF Contains(line, <<COLON>>) /\ ~IsDigit(line[1])
      THEN LET parts == SplitOnce(line, <<COLON>>)
           IN  <<[source |-> LStripDashSpace(Strip(parts[1])), target |-> Strip(parts[2])]>>
    ELSE <<>>

RECURSIVE MatchingLines(_)
MatchingLines(lines) ==
    IF lines = <<>> THEN <<>>
    ELSE ParseMatchLine(Strip(Head(lines))) \o MatchingLines(Tail(lines))

\* the letter of an mc_single answer, mutated: a longer answer is not cut
\* to its first character
NormalizeLetterUncut(answer) ==
    Strip(RemoveChar(RemoveChar(RemoveChar(Upper(answer), RPAREN), DOT), COLON))

\* the letter of an mc_single answer
NormalizeLetter(answer) ==
    LET letter == Strip(RemoveChar(RemoveChar(RemoveChar(Upper(answer), RPAREN), DOT), COLON))
    IN  IF Len(letter) > 1 THEN <<letter[1]>> ELSE letter

\* index of the first choice whose label is the letter, 0 if none
ChoiceIndex(choices, letter) ==
    LET hits == { k \in 1 .. Len(choices) : <<UpperChar(choices[k].label)>> = letter }
    IN  IF hits = {} THEN 0 ELSE CHOOSE k \in hits : \A j \in hits : k <= j

\* the tokens of an mc_multi answer
RECURSIVE MultiLetters(_)
MultiLetters(tokens) ==
    IF tokens = <<>> THEN <<>>
    ELSE <<RemoveChar(RemoveChar(Upper(Strip(Head(tokens))), RPAREN), DOT)>>
           \o MultiLetters(Tail(tokens))

\* the targets of an mc_multi answer, mutated: the choices are walked in
\* document order and each one named by a letter is taken
RECURSIVE ResolveLettersChoiceOrder(_, _)
ResolveLettersChoiceOrder(letters, choices) ==
    IF choices = <<>> THEN <<>>
    ELSE (IF InSeq(<<UpperChar(Head(choices).label)>>, letters)
            THEN <<Head(choices).element>> ELSE <<>>)
           \o ResolveLettersChoiceOrder(letters, Tail(choices))

\* the targets of an mc_multi answer
RECURSIVE ResolveLetters(_, _)
ResolveLetters(letters, choices) ==
    IF letters = <<>> THEN <<>>
    ELSE LET k == ChoiceIndex(choices, Head(letters))
         IN  (IF k > 0 THEN <<choices[k].element>> ELSE <<>>)
               \o ResolveLetters(Tail(letters), choices)

\* the values of a fill answer brought to n entries, mutated: a short list
\* is not padded
PadTruncateNoPad(values, n) ==
    SubSeq(values, 1, Min2(Len(values), n))

\* the values of a fill answer brought to n entries
PadTruncate(values, n) ==
    [k \in 1 .. n |-> IF k <= Len(values) THEN values[k] ELSE <<>>]

\* the values of a fill answer with several blanks
FillValues(raw, inputs) ==
    LET v1 == StrippedNonEmpty(Split(raw, SEMI))
        v2 == IF Len(v1) = 1 /\ Len(inputs) > 1
                THEN StrippedNonEmpty(Split(raw, COMMA)) ELSE v1
        v3 == IF Len(v2) = 1 /\ Len(inputs) > 1
                THEN StrippedNonEmpty(Split(raw, NL)) ELSE v2
        cleaned == [k \in 1 .. Len(v3) |-> SubNumbering(v3[k], {DOT, COLON})]
    IN  PadTruncate(cleaned, Len(inputs))

\* re.split(r';\s*|\n', answer)
RECURSIVE SplitDropdown(_)
SplitDropdown(s) ==
    LET hits == { k \in 1 .. Len(s) : s[k] = SEMI \/ s[k] = NL }
    IN  IF hits = {} THEN <<s>>
        ELSE LET k == CHOOSE h \in hits : \A j \in hits : h <= j
                 skip == IF s[k] = SEMI THEN SpaceRun(s, k + 1) ELSE 0
             IN  <<SubSeq(s, 1, k - 1)>> \o SplitDropdown(SubSeq(s, k + 1 + skip, Len(s)))

RECURSIVE DropdownValues(_)
DropdownValues(parts) ==
    IF parts = <<>> THEN <<>>
    ELSE LET part == Strip(Head(parts))
         IN  (IF Contains(part, <<COLON>>) THEN <<Strip(SplitOnce(part, <<COLON>>)[2])>>
              ELSE IF part # <<>> THEN <<part>>
              ELSE <<>>)
               \o DropdownValues(Tail(parts))

TxtArrowJoin == <<SPACE, DASH, GT, SPACE>>

parse_gpt_response(response_text, question_data) ==
    LET q_type  == question_data.type
        choices == question_data.choices
    IN  IF q_type = "ordering"
          THEN LET ordered == OrderingLines(Split(IsolateAnswer(response_text), NL))
               IN  [type |-> "ordering",
                    answer_text |-> Join(ordered, TxtArrowJoin),
                    ordered_items |-> ordered,
                    item_elements |-> question_data.item_elements,
                    original_items |-> question_data.items,
                    targets |-> <<>>, values |-> <<>>]
        ELSE IF q_type = "matching"
          THEN LET matches == MatchingLines(Split(IsolateAnswer(response_text), NL))
               IN  [type |-> "matching",
                    answer_text |->
                        Join([k \in 1 .. Len(matches) |->
                                 matches[k].source \o ARROW \o matches[k].target],
                             <<COMMA, SPACE>>),
                    matches |-> matches,
                    source_elements |-> question_data.source_elements,
                    target_elements |-> question_data.target_elements,
                    sources |-> question_data.sources,
                    targets_list |-> question_data.targets,
                    values |-> <<>>]
        ELSE IF q_type = "mc_single"
          THEN LET letter == NormalizeLetter(_extract_answer_line(response_text))
                   k      == ChoiceIndex(choices, letter)
               IN  [type |-> "click", answer_text |-> letter,
                    targets |-> IF k > 0 THEN <<choices[k].element>> ELSE <<>>,
                    values |-> <<>>]
        ELSE IF q_type = "mc_multi"
          THEN LET letters == MultiLetters(Split(_extract_answer_line(response_text), COMMA))
               IN  [type |-> "multi_click", answer_text |-> Join(letters, <<COMMA, SPACE>>),
                    targets |-> ResolveLetters(letters, choices),
                    values |-> <<>>]
        ELSE IF q_type = "fill"
          THEN LET inputs == question_data.input_elements
                   answer == _extract_answer_line(response_text)
                   values == IF question_data.blank_count > 1
                               THEN FillValues(answer, inputs) ELSE <<answer>>
               IN  [type |-> "multi_type", answer_text |-> Join(values, <<SEMI, SPACE>>),
                    targets |-> inputs, values |-> values]
        ELSE IF q_type = "dropdown"
          THEN LET values == DropdownValues(SplitDropdown(_extract_answer_line(response_text)))
               IN  [type |-> "dropdown", answer_text |-> Join(values, <<COMMA, SPACE>>),
                    targets |-> question_data.input_elements, values |-> values]
        ELSE LET answer == _extract_answer_line(response_text)
             IN  [type |-> "type", answer_text |-> answer,
                  targets |-> question_data.input_elements, values |-> <<answer>>]

\* ---- inputs -----------------------------------------------------------
\* "ANSWER:"
TxtANSWER == <<27, 40, 45, 49, 31, 44, COLON>>

\* "Thinking..."
TxtThinking == <<46, 8, 9, 14, 11, 9, 14, 7, DOT, DOT, DOT>>

\* "only one"
TxtOnlyOne == <<15, 14, 12, 25, SPACE, 15, 14, 5>>

\* "Left1", "Left2", "Right1", "Right2"
TxtLeft1 == <<38, 5, 6, 20, DIGIT0 + 1>>

TxtLeft2 == <<38, 5, 6, 20, DIGIT0 + 2>>

TxtRight1 == <<44, 9, 7, 8, 20, DIGIT0 + 1>>

TxtRight2 == <<44, 9, 7, 8, 20, DIGIT0 + 2>>

\* "junk"
TxtJunk == <<10, 21, 14, 11>>

\* every concatenation lead + marker + body + trail
Compose(leads, markers, bodies, trails) ==
    { l \o m \o b \o t : l \in leads, m \in markers, b \in bodies, t \in trails }

McResponses ==
    Compose({ <<>>, TxtThinking \o <<NL>>, TxtANSWER \o <<SPACE, 27, NL>>, <<SPACE, SPACE>>,
              TxtThinking \o <<NL, SPACE>> },
            { TxtANSWER \o <<SPACE>>, ANSWER_MARKER, TxtANSWER \o <<NL>>, <<>> },
            { <<28>>, <<2, RPAREN>>, <<29, DOT>>, <<28, COMMA, SPACE, 30>>,
              <<30, COMMA, 28>>, <<52>>, <<>>, <<28, COLON, COMMA, SPACE, 1, DOT>> },
            { <<>>, <<NL>> \o TxtANSWER \o <<SPACE, 29>>, <<NL>>, <<NL>> \o TxtJunk })

FillResponses ==
    Compose({ <<>>, TxtThinking \o <<NL>> },
            { TxtANSWER \o <<SPACE>>, <<>> },
            { TxtOnlyOne, <<1, SEMI, SPACE, 2>>, <<1, COMMA, 2>>,
              <<1, SEMI, 2, SEMI, 3, SEMI, 4>>,
              <<DIGIT0 + 1, DOT, SPACE, 1, SEMI, SPACE, DIGIT0 + 2, COLON, SPACE, 2>>,
              <<SEMI>>, <<>> },
            { <<>>, <<NL>> \o TxtANSWER })

OrderingResponses ==
    Compose({ <<>>, TxtThinking \o <<NL>>, <<DIGIT0 + 1, DOT, SPACE, 27, NL>> },
            { TxtANSWER \o <<NL>>, TxtANSWER \o <<SPACE>>, <<>> },
            { <<DIGIT0 + 1, DOT, SPACE, 28, NL, DIGIT0 + 2, DOT, SPACE, 29, NL,
                DIGIT0 + 3, DOT, SPACE, 27>>,
              <<DASH, SPACE, 28, NL, NL, DIGIT0 + 2, RPAREN, 29>>,
              <<DIGIT0 + 1, DOT, NL, 28>>,
              <<28, NL, DIGIT0 + 1, DIGIT0 + 2, COLON, SPACE, 29>>,
              <<28>> },
            { <<>>, <<NL>> \o TxtANSWER, <<NL>> \o TxtANSWER \o <<NL, DIGIT0 + 1, DOT, SPACE, 27>> })

MatchingResponses ==
    Compose({ <<>>, TxtThinking \o <<NL>>, <<24, SPACE>> \o ARROW \o <<SPACE, 25, NL>> },
            { <<>>, TxtANSWER \o <<NL>>, TxtANSWER \o <<SPACE>> },
            { TxtLeft1 \o <<SPACE>> \o ARROW \o <<SPACE>> \o TxtRight2 \o <<NL>>
                 \o TxtLeft2 \o <<SPACE>> \o ARROW \o <<SPACE>> \o TxtRight1,
              <<DASH, SPACE>> \o TxtLeft1 \o ARROW \o TxtRight2 \o <<NL>> \o TxtJunk,
              TxtLeft1 \o <<COLON, SPACE>> \o TxtRight2 \o <<NL, DIGIT0 + 1, COLON, SPACE, 24>>,
              TxtJunk,
              <<DIGIT0 + 1, 1, COLON, SPACE, 24, NL>> \o TxtLeft2 \o <<COLON>> \o TxtRight1,
              TxtJunk \o <<NL>> \o TxtLeft2 \o <<SPACE>> \o ARROW \o <<SPACE>> \o TxtRight1 },
            { <<>>, <<NL>> \o TxtANSWER, <<NL>> \o TxtJunk })

\* a question page with no control on it
NoControls ==
    [sortable_component |-> FALSE, sortable_items |-> <<>>,
     matching_component |-> FALSE, matching_labels |-> <<>>,
     matching_drop_zones |-> 0, matching_choices |-> 0, choice_rows |-> 0,
     radios |-> 0, checkboxes |-> 0, text_inputs |-> 0, dropdowns |-> 0,
     question_text |-> "q", context_parts |-> <<>>]

\* the pages whose questions the interpreter is run on
InterpreterPages ==
    { [NoControls EXCEPT !.radios = 4], [NoControls EXCEPT !.radios = 2],
      [NoControls EXCEPT !.checkboxes = 4],
      [NoControls EXCEPT !.checkboxes = 2, !.choice_rows = 3],
      [NoControls EXCEPT !.text_inputs = 1], [NoControls EXCEPT !.text_inputs = 2],
      [NoControls EXCEPT !.text_inputs = 3],
      [NoControls EXCEPT !.dropdowns = 2],
      [NoControls EXCEPT !.sortable_component = TRUE, !.sortable_items = <<"x", "y", "z">>],
      [NoControls EXCEPT !.matching_component = TRUE, !.matching_labels = <<"l", "m">>,
                         !.matching_drop_zones = 2, !.matching_choices = 2],
      NoControls }

ResponsesFor(q_type) ==
    IF q_type \in {"mc_single", "mc_multi"} THEN McResponses
    ELSE IF q_type = "ordering" THEN OrderingResponses
    ELSE IF q_type = "matching" THEN MatchingResponses
    ELSE FillResponses

InitInterpret ==
    /\ \E c \in InterpreterPages :
          /\ int_question = parse_question(c)
          /\ oracle_text \in ResponsesFor(parse_question(c).type)
    /\ answer_line = <<>>
    /\ int_action = <<>>
    /\ ipc = "ready"
    /\ OrdIdle
    /\ ClsIdle
    /\ PqIdle
    /\ LoopIdle
    /\ ActIdle
    /\ FzIdle
    /\ ExtIdle

\* one call of _extract_answer_line on the response
ExtractAnswerLine ==
    /\ ipc = "ready"
    /\ answer_line' = _extract_answer_line(oracle_text)
    /\ ipc' = "extracted"
    /\ UNCHANGED <<oracle_text, int_question, int_action>>
    /\ UNCHANGED <<ordVars, clsVars, pqVars, loopVars, actVars, fzVars, extVars>>

\* one call of parse_gpt_response on the response and the question
ParseGptResponse ==
    /\ ipc = "extracted"
    /\ int_action' = parse_gpt_response(oracle_text, int_question)
    /\ ipc' = "parsed"
    /\ UNCHANGED <<oracle_text, int_question, answer_line>>
    /\ UNCHANGED <<ordVars, clsVars, pqVars, loopVars, actVars, fzVars, extVars>>

NextInterpret == ExtractAnswerLine \/ ParseGptResponse

SpecInterpret == InitInterpret /\ [][NextInterpret]_vars

\* ---- properties -------------------------------------------------------
\* the lines of the response (surrounding whitespace of the response removed)
RespLines == Split(Strip(oracle_text), NL)

\* the lines that start with the marker, any letter case
MarkerLines == { k \in 1 .. Len(RespLines) : MarkerAt(RespLines[k], 1) }

NonBlankLines == { k \in 1 .. Len(RespLines) : Strip(RespLines[k]) # <<>> }

FirstOf(S) == CHOOSE k \in S : \A j \in S : k <= j

LastOf(S) == CHOOSE k \in S : \A j \in S : k >= j

\* C14: _extract_answer_line returns the trimmed text that follows the
\* marker on the first line that starts with 'ANSWER:' (any letter case),
\* and the last non-blank line when no line starts with the marker.
C14_FirstMarkerLine ==
    ipc \in {"extracted", "parsed"} =>
        /\ MarkerLines # {} =>
              answer_line =
                  Strip(SubSeq(RespLines[FirstOf(MarkerLines)], Len(ANSWER_MARKER) + 1,
                               Len(RespLines[FirstOf(MarkerLines)])))
        /\ (MarkerLines = {} /\ NonBlankLines # {}) =>
              answer_line = Strip(RespLines[LastOf(NonBlankLines)])

\* the normal form of one answer token: upper case, trimmed, the listed
\* characters removed
TokenNorm(t, removed) ==
    LET u == Upper(t)
    IN  Strip(SelectSeq(u, LAMBDA c : c \notin removed))

LabelIndex(letter) ==
    { k \in 1 .. Len(int_question.choices) :
        <<UpperChar(int_question.choices[k].label)>> = letter }

AnswerTokens == Split(answer_line, COMMA)

\* the tokens of the answer line that name a choice
NamingTokens ==
    { k \in 1 .. Len(AnswerTokens) :
        LabelIndex(TokenNorm(AnswerTokens[k], {RPAREN, DOT})) # {} }

TokenRank(k) == Cardinality({ h \in NamingTokens : h <= k })

\* C12: for an mc_multi question the action is a multi_click whose targets
\* are the refs of the choices named by the comma-separated letters of the
\* answer line, in the order of the letters, tokens naming no choice
\* skipped; choices A-D and 'Thinking...\nANSWER: B, D' give [refB, refD].
C12_MultiTargets ==
    (ipc = "parsed" /\ int_question.type = "mc_multi") =>
        /\ int_action.type = "multi_click"
        /\ Len(int_action.targets) = Cardinality(NamingTokens)
        /\ \A k \in NamingTokens :
              \E c \in LabelIndex(TokenNorm(AnswerTokens[k], {RPAREN, DOT})) :
                  int_action.targets[TokenRank(k)] = int_question.choices[c].element
        /\ (Len(int_question.choices) = 4
              /\ oracle_text = TxtThinking \o <<NL>> \o TxtANSWER \o <<SPACE, 28, COMMA, SPACE, 30>>)
              => int_action.targets = <<int_question.choices[2].element,
                                        int_question.choices[4].element>>

C12_Witness ==
    /\ ipc = "parsed"
    /\ int_question.type = "mc_multi"
    /\ Len(int_question.choices) = 4
    /\ oracle_text = TxtThinking \o <<NL>> \o TxtANSWER \o <<SPACE, 28, COMMA, SPACE, 30>>
    /\ int_action.targets = <<<<"checkbox", 2>>, <<"checkbox", 4>>>>

\* C13: for a fill question with N > 1 blanks the values of the action have
\* length exactly N for every oracle text; N = 3 and 'ANSWER: only one'
\* give ['only one', '', ''].
C13_ExactlyNValues ==
    (ipc = "parsed" /\ int_question.type = "fill" /\ int_question.blank_count > 1) =>
        /\ int_action.type = "multi_type"
        /\ Len(int_action.values) = int_question.blank_count
        /\ (int_question.blank_count = 3 /\ oracle_text = TxtANSWER \o <<SPACE>> \o TxtOnlyOne)
              => int_action.values = <<TxtOnlyOne, <<>>, <<>>>>

C13_Witness ==
    /\ ipc = "parsed"
    /\ int_question.type = "fill"
    /\ int_question.blank_count = 3
    /\ oracle_text = TxtANSWER \o <<SPACE>> \o TxtOnlyOne
    /\ int_action.values = <<TxtOnlyOne, <<>>, <<>>>>

\* the extracted answer as one letter
SingleLetter ==
    LET u == TokenNorm(answer_line, {RPAREN, DOT, COLON})
    IN  IF Len(u) > 1 THEN <<u[1]>> ELSE u

\* C15: for an mc_single question the action is a click whose answer is the
\* extracted answer in upper case with ')', '.' and ':' removed, cut to its
\* first character, and whose targets hold exactly the ref of the choice
\* with that label, or nothing when no choice has it.
C15_SingleClick ==
    (ipc = "parsed" /\ int_question.type = "mc_single") =>
        /\ int_action.type = "click"
        /\ int_action.answer_text = SingleLetter
        /\ Len(int_action.answer_text) <= 1
        /\ LabelIndex(SingleLetter) = {} => int_action.targets = <<>>
        /\ \A c \in LabelIndex(SingleLetter) :
              int_action.targets = <<int_question.choices[c].element>>

C15_Witness ==
    /\ ipc = "parsed"
    /\ int_question.type = "mc_single"
    /\ Len(int_question.choices) = 2
    /\ answer_line = <<28, COMMA, SPACE, 30>>
    /\ int_action.answer_text = <<28>>
    /\ int_action.targets = <<<<"radio", 2>>>>

C15_WitnessNoChoice ==
    /\ ipc = "parsed"
    /\ int_question.type = "mc_single"
    /\ answer_line = <<52>>
    /\ int_action.targets = <<>>

\* a is a subsequence of b
RECURSIVE IsSubseq(_, _)
IsSubseq(a, b) ==
    IF a = <<>> THEN TRUE
    ELSE IF b = <<>> THEN FALSE
    ELSE IF Head(a) = Head(b) THEN IsSubseq(Tail(a), Tail(b))
    ELSE IsSubseq(a, Tail(b))

\* the pairs of the lines 'left -> right' among the given lines, in line
\* order; bullets: a leading run of '-' and ' ' is not part of left
RECURSIVE ArrowPairs(_, _)
ArrowPairs(lines, bullets) ==
    IF lines = <<>> THEN <<>>
    ELSE LET line  == Strip(Head(lines))
             parts == SplitOnce(line, ARROW)
             left  == IF bullets THEN LStripDashSpace(Strip(parts[1])) ELSE Strip(parts[1])
         IN  (IF Contains(line, ARROW)
                THEN <<[source |-> left, target |-> Strip(parts[2])]>> ELSE <<>>)
               \o ArrowPairs(Tail(lines), bullets)

\* the lines that hold an arrow or a colon
PairLines(lines) ==
    { k \in 1 .. Len(lines) : Contains(lines[k], ARROW) \/ Contains(lines[k], <<COLON>>) }

TwoArrowLines ==
    TxtLeft1 \o <<SPACE>> \o ARROW \o <<SPACE>> \o TxtRight2 \o <<NL>>
      \o TxtLeft2 \o <<SPACE>> \o ARROW \o <<SPACE>> \o TxtRight1

TwoArrowPairs ==
    <<[source |-> TxtLeft1, target |-> TxtRight2], [source |-> TxtLeft2, target |-> TxtRight1]>>

\* C16 as stated: for a matching question every response line of the form
\* 'left -> right' yields the pair {source: left, target: right}, the pairs
\* are in line order, and a line with neither an arrow nor a colon yields
\* nothing.
C16_EveryArrowLine ==
    (ipc = "parsed" /\ int_question.type = "matching") =>
        /\ int_action.type = "matching"
        /\ IsSubseq(ArrowPairs(RespLines, FALSE), int_action.matches)
        /\ Len(int_action.matches) <= Cardinality(PairLines(RespLines))
        /\ oracle_text = TwoArrowLines => int_action.matches = TwoArrowPairs

\* the positions of an 'ANSWER:' marker (any letter case, anywhere in a
\* line) that is followed by at least one more character
FollowedMarkers ==
    { p \in 1 .. Len(Strip(oracle_text)) :
        /\ MarkerAt(Strip(oracle_text), p)
        /\ p + Len(ANSWER_MARKER) <= Len(Strip(oracle_text)) }

\* the lines after the first such marker, or all lines without one
AnswerBlockLines ==
    IF FollowedMarkers = {} THEN RespLines
    ELSE Split(Strip(SubSeq(Strip(oracle_text), FirstOf(FollowedMarkers) + Len(ANSWER_MARKER),
                            Len(Strip(oracle_text)))), NL)

\* C16 amended: the lines parsed are those after the first 'ANSWER:' marker
\* that is followed by text, or all lines when there is none; each of them
\* of the form 'left -> right' yields the pair {source: left without
\* leading dashes and spaces, target: right}, in line order, and a line
\* with neither an arrow nor a colon yields nothing.
C16_ArrowLinesOfAnswerBlock ==
    (ipc = "parsed" /\ int_question.type = "matching") =>
        /\ int_action.type = "matching"
        /\ IsSubseq(ArrowPairs(AnswerBlockLines, TRUE), int_action.matches)
        /\ Len(int_action.matches) <= Cardinality(PairLines(AnswerBlockLines))
        /\ PairLines(AnswerBlockLines) = {} => int_action.matches = <<>>
        /\ oracle_text = TwoArrowLines => int_action.matches = TwoArrowPairs

C16_Witness ==
    /\ ipc = "parsed"
    /\ int_question.type = "matching"
    /\ oracle_text = <<24, SPACE>> \o ARROW \o <<SPACE, 25, NL>> \o TxtANSWER \o <<NL>>
                       \o TwoArrowLines \o <<NL>> \o TxtJunk
    /\ int_action.matches = TwoArrowPairs

\* the positions of an 'ANSWER:' marker in the response
AnyMarkers ==
    { p \in 1 .. Len(Strip(oracle_text)) : MarkerAt(Strip(oracle_text), p) }

\* the text behind the first marker, or the whole response without one
TextAfterMarker ==
    IF AnyMarkers = {} THEN Strip(oracle_text)
    ELSE SubSeq(Strip(oracle_text), FirstOf(AnyMarkers) + Len(ANSWER_MARKER),
                Len(Strip(oracle_text)))

\* C17: for an ordering question only the text after an 'ANSWER:' marker is
\* parsed when the response contains one, and the whole response otherwise;
\* its non-blank lines, leading 'N.', 'N)', 'N:' or '-' stripped, are the
\* entries of ordered_items in line order; 'Thinking...\nANSWER:\n1. B\n2. C\n3. A'
\* gives ['B', 'C', 'A'].
C17_OnlyAfterMarker ==
    (ipc = "parsed" /\ int_question.type = "ordering") =>
        /\ int_action.type = "ordering"
        /\ int_action.ordered_items = OrderingLines(Split(TextAfterMarker, NL))

\* ---------------------------------------------------------------------------
\* Licensing server: one-device-at-a-time sessions (src/server/db.py,
\* src/server/app.py).  Every connection is opened with autocommit on, so each
\* SQL statement of create_session is a transaction of its own and statements
\* of concurrent requests interleave.  active_sessions has a UNIQUE
\* session_id and a plain (non-unique) index on access_key.
\* ---------------------------------------------------------------------------

\* the devices; device d sends session_id d
Devices == 1..MaxDevices

AccessKeys == {"key_a", "key_b"}

NoSession == [access_key |-> "", session_id |-> 0, stale |-> FALSE]

NoRequest == [pc |-> "idle", access_key |-> "", existing |-> NoSession,
              previous_session_terminated |-> FALSE]

RowsOfKey(k) == { row \in active_sessions : row.access_key = k }

RowsOfSession(sid) == { row \in active_sessions : row.session_id = sid }

InitSession ==
    /\ OrdIdle
    /\ ClsIdle
    /\ PqIdle
    /\ LoopIdle
    /\ ActIdle
    /\ FzIdle
    /\ IntIdle
    /\ MatchIdle
    /\ PayIdle
    /\ active_sessions = {}
    /\ sess_req = [d \in Devices |-> NoRequest]

\* start_session up to the SELECT of create_session: the key is valid and
\* not expired; fetchone() returns one of the rows of the key, or None.  A
\* device starts again once its previous session is gone.
CreateSessionSelect(d, k) ==
    /\ sess_req[d].pc \in {"idle", "done"}
    /\ RowsOfSession(d) = {}
    /\ \E existing \in (IF RowsOfKey(k) = {} THEN {NoSession} ELSE RowsOfKey(k)) :
          sess_req' = [sess_req EXCEPT ![d] =
                          [pc |-> "selected", access_key |-> k,
                           existing |-> existing,
                           previous_session_terminated |-> FALSE]]
    /\ UNCHANGED active_sessions
    /\ UNCHANGED <<ordVars, clsVars, pqVars, loopVars, actVars, fzVars, intVars, matchVars, payVars>>

\* if existing: DELETE FROM active_sessions WHERE access_key = %s
CreateSessionDelete(d) ==
    /\ sess_req[d].pc = "selected"
    /\ sess_req[d].existing # NoSession
    /\ active_sessions' = active_sessions \ RowsOfKey(sess_req[d].access_key)
    /\ sess_req' = [sess_req EXCEPT ![d].pc = "deleted"]
    /\ UNCHANGED <<ordVars, clsVars, pqVars, loopVars, actVars, fzVars, intVars, matchVars, payVars>>

\* INSERT INTO active_sessions, then start_session's response
CreateSessionInsert(d) ==
    /\ \/ sess_req[d].pc = "deleted"
       \/ sess_req[d].pc = "selected" /\ sess_req[d].existing = NoSession
    /\ active_sessions' = active_sessions \cup
          { [access_key |-> sess_req[d].access_key, session_id |-> d,
             stale |-> FALSE] }
    /\ sess_req' = [sess_req EXCEPT
          ![d].pc = "done",
          ![d].previous_session_terminated = (sess_req[d].existing # NoSession)]
    /\ UNCHANGED <<ordVars, clsVars, pqVars, loopVars, actVars, fzVars, intVars, matchVars, payVars>>

\* UPDATE active_sessions SET last_heartbeat = NOW() WHERE session_id = %s
update_session_heartbeat(d) ==
    /\ RowsOfSession(d) # {}
    /\ active_sessions' = { IF row.session_id = d
                              THEN [row EXCEPT !.stale = FALSE] ELSE row :
                            row \in active_sessions }
    /\ UNCHANGED sess_req
    /\ UNCHANGED <<ordVars, clsVars, pqVars, loopVars, actVars, fzVars, intVars, matchVars, payVars>>

\* DELETE FROM active_sessions WHERE session_id = %s
end_session(d) ==
    /\ RowsOfSession(d) # {}
    /\ active_sessions' = active_sessions \ RowsOfSession(d)
    /\ UNCHANGED sess_req
    /\ UNCHANGED <<ordVars, clsVars, pqVars, loopVars, actVars, fzVars, intVars, matchVars, payVars>>

\* sixty seconds pass without a heartbeat of session d
HeartbeatTimeout(d) ==
    /\ \E row \in RowsOfSession(d) : ~row.stale
    /\ active_sessions' = { IF row.session_id = d
                              THEN [row EXCEPT !.stale = TRUE] ELSE row :
                            row \in active_sessions }
    /\ UNCHANGED sess_req
    /\ UNCHANGED <<ordVars, clsVars, pqVars, loopVars, actVars, fzVars, intVars, matchVars, payVars>>

\* DELETE FROM active_sessions WHERE last_heartbeat < NOW() - 60 s
cleanup_stale_sessions ==
    /\ \E row \in active_sessions : row.stale
    /\ active_sessions' = { row \in active_sessions : ~row.stale }
    /\ UNCHANGED sess_req
    /\ UNCHANGED <<ordVars, clsVars, pqVars, loopVars, actVars, fzVars, intVars, matchVars, payVars>>

NextSession ==
    \/ \E d \in Devices, k \in AccessKeys : CreateSessionSelect(d, k)
    \/ \E d \in Devices : CreateSessionDelete(d)
    \/ \E d \in Devices : CreateSessionInsert(d)
    \/ \E d \in Devices : update_session_heartbeat(d)
    \/ \E d \in Devices : end_session(d)
    \/ \E d \in Devices : HeartbeatTimeout(d)
    \/ cleanup_stale_sessions

SpecSession == InitSession /\ [][NextSession]_vars

\* C23: after any interleaving of session start, heartbeat, end and cleanup
\* requests there is at most one active session per access key, and a start
\* for a key that has an active session reports previous_session_terminated
\* = true.
C23_OneSessionPerKey ==
    /\ \A k \in AccessKeys : Cardinality(RowsOfKey(k)) <= 1
    /\ \A d \in Devices :
          (sess_req[d].pc = "done" /\ sess_req[d].existing # NoSession)
              => sess_req[d].previous_session_terminated

\* ---------------------------------------------------------------------------
\* The gesture of one reordering step
\* ---------------------------------------------------------------------------
\* the step the reordering loop is about to take
StepOrigIdx == At(desired_order, target_pos)

StepCur == At(current_positions, StepOrigIdx)

\* the step was taken with a gesture
GestureIssued == gestures' = gestures + 1

MatchLabels == <<TxtLeft1, TxtLeft2>>

MatchChoices == <<TxtRight1, TxtRight2>>

\* first index whose text contains, or is contained in, the wanted text
RECURSIVE FirstContaining(_, _, _)
FirstContaining(wanted, texts, i) ==
    IF i >= Len(texts) THEN -1
    ELSE IF Contains(At(texts, i), wanted) \/ Contains(wanted, At(texts, i)) THEN i
    ELSE FirstContaining(wanted, texts, i + 1)

LowerAll(texts) == [k \in 1 .. Len(texts) |-> Lower(texts[k])]

StripLowerAll(texts) == [k \in 1 .. Len(texts) |-> Lower(Strip(texts[k]))]

MatchPairs ==
    { [source |-> l, target |-> r] :
        l \in {TxtLeft1, TxtLeft2, TxtJunk}, r \in {TxtRight1, TxtRight2, TxtJunk} }

MatchLists ==
    {<<>>} \cup { <<a>> : a \in MatchPairs } \cup { <<a, b>> : a, b \in MatchPairs }

InitMatching ==
    /\ OrdIdle
    /\ ClsIdle
    /\ PqIdle
    /\ LoopIdle
    /\ ActIdle
    /\ FzIdle
    /\ IntIdle
    /\ SessIdle
    /\ PayIdle
    /\ mt_executor \in {"main", "actions"}
    /\ mt_matches \in MatchLists
    /\ mt_i = 0
    /\ mt_render = 0
    /\ mt_drags = <<>>
    /\ mpc = "start"

\* "if not matches or not (elements)": nothing to do
MatchingBegin ==
    /\ mpc = "start"
    /\ mpc' = IF mt_matches = <<>> THEN "no_matches" ELSE "loop"
    /\ UNCHANGED <<mt_executor, mt_matches, mt_i, mt_render, mt_drags>>
    /\ UNCHANGED <<ordVars, clsVars, pqVars, loopVars, actVars, fzVars, intVars, sessVars, payVars>>

\* a drag done with choice reference ref; the page may then re-render
DragDone(lookup, ref) ==
    /\ mt_drags' = Append(mt_drags, [pair |-> mt_i, lookup |-> lookup,
                                     ref |-> ref, page |-> mt_render])
    /\ mt_render' \in {mt_render, mt_render + 1}
    /\ mt_i' = mt_i + 1
    /\ UNCHANGED mpc

SkipPair == 
    /\ mt_i' = mt_i + 1
    /\ UNCHANGED <<mt_render, mt_drags, mpc>>

\* one iteration of main._execute_matching: both elements come from the
\* lists captured at extraction (render 0); execute_script on a stale
\* element raises
MainMatchingStep ==
    LET match    == At(mt_matches, mt_i)
        src_text == Strip(Lower(match.source))
        tgt_text == Strip(Lower(match.target))
        src_idx  == FirstContaining(src_text, LowerAll(MatchLabels), 0)
        tgt_idx  == FirstContaining(tgt_text, LowerAll(MatchChoices), 0)
    IN  IF src_idx >= 0 /\ tgt_idx >= 0
          THEN IF mt_render > 0
                 THEN /\ mt_drags' = Append(mt_drags,
                            [pair |-> mt_i, lookup |-> "captured", ref |-> 0,
                             page |-> mt_render])
                      /\ mpc' = "raised"
                      /\ UNCHANGED <<mt_i, mt_render>>
               ELSE DragDone("captured", 0)
        ELSE SkipPair

\* one iteration of actions._execute_matching: the drop zone comes from the
\* captured list, the choice from the list re-queried now ([] when the driver
\* call fails)
ActionsMatchingStep ==
    LET match       == At(mt_matches, mt_i)
        label_text  == Strip(Lower(match.source))
        choice_text == Strip(Lower(match.target))
        drop_idx    == FirstContaining(label_text, LowerAll(MatchLabels), 0)
    IN  IF drop_idx < 0 THEN SkipPair
        ELSE \E fresh_choices \in {MatchChoices, <<>>} :
               IF FirstContaining(choice_text, StripLowerAll(fresh_choices), 0) < 0
                 THEN SkipPair
               ELSE DragDone("requeried", mt_render)

MatchingStep ==
    /\ mpc = "loop"
    /\ mt_i < Len(mt_matches)
    /\ IF mt_executor = "main" THEN MainMatchingStep ELSE ActionsMatchingStep
    /\ UNCHANGED <<mt_executor, mt_matches>>
    /\ UNCHANGED <<ordVars, clsVars, pqVars, loopVars, actVars, fzVars, intVars, sessVars, payVars>>

MatchingEnd ==
    /\ mpc = "loop"
    /\ mt_i = Len(mt_matches)
    /\ mpc' = "done"
    /\ UNCHANGED <<mt_executor, mt_matches, mt_i, mt_render, mt_drags>>
    /\ UNCHANGED <<ordVars, clsVars, pqVars, loopVars, actVars, fzVars, intVars, sessVars, payVars>>

NextMatching == MatchingBegin \/ MatchingStep \/ MatchingEnd

SpecMatching == InitMatching /\ [][NextMatching]_vars

\* C25: the draggable choice of every pair is looked up in the choice list
\* re-queried from the live page right before the pair's drag, never in the
\* references captured at extraction, so no drag uses a reference older than
\* the page's current rendering.
C25_ChoiceRequeried ==
    \A k \in 1 .. Len(mt_drags) :
        /\ mt_drags[k].lookup = "requeried"
        /\ mt_drags[k].ref = mt_drags[k].page

\* ---------------------------------------------------------------------------
\* mc_multi tokens against the mc_single normal form
\* ---------------------------------------------------------------------------
\* a token normalized as an mc_single answer is: upper case, ')', '.' and
\* ':' removed, cut to its first character
TokenAsSingle(t) ==
    LET u == TokenNorm(t, {RPAREN, DOT, COLON})
    IN  IF Len(u) > 1 THEN <<u[1]>> ELSE u

\* C26: in mc_multi interpretation every comma-separated token is normalized
\* as an mc_single answer is (upper case, ')', '.' and ':' removed, cut to
\* the first character), so each token whose normal form is the label of a
\* choice contributes that choice's ref to the targets ('B:' resolves to B).
C26_TokensAsSingle ==
    (ipc = "parsed" /\ int_question.type = "mc_multi") =>
        \A k \in 1 .. Len(AnswerTokens) :
            \A c \in LabelIndex(TokenAsSingle(AnswerTokens[k])) :
                InSeq(int_question.choices[c].element, int_action.targets)

\* ---------------------------------------------------------------------------
\* 'left: right' lines of a matching answer
\* ---------------------------------------------------------------------------
PurelyNumeric(t) == t # <<>> /\ \A k \in 1 .. Len(t) : IsDigit(t[k])

\* the pairs of the given lines when a colon line counts exactly if its left
\* side is not purely numeric
RECURSIVE PairsByLeftSide(_)
PairsByLeftSide(lines) ==
    IF lines = <<>> THEN <<>>
    ELSE LET line  == Strip(Head(lines))
             byArrow == SplitOnce(line, ARROW)
             byColon == SplitOnce(line, <<COLON>>)
         IN  (IF Contains(line, ARROW)
                THEN <<[source |-> LStripDashSpace(Strip(byArrow[1])),
                        target |-> Strip(byArrow[2])]>>
              ELSE IF Contains(line, <<COLON>>) /\ ~PurelyNumeric(Strip(byColon[1]))
                THEN <<[source |-> LStripDashSpace(Strip(byColon[1])),
                        target |-> Strip(byColon[2])]>>
              ELSE <<>>)
               \o PairsByLeftSide(Tail(lines))

\* C27: in matching interpretation a line without an arrow of the form
\* 'left: right' yields the pair {source: left, target: right} exactly when
\* its left side is not purely numeric: accepted whenever the left side
\* holds a non-digit character (also when it begins with a digit), dropped
\* whenever the left side consists of digits only.
C27_ColonLineByLeftSide ==
    (ipc = "parsed" /\ int_question.type = "matching") =>
        int_action.matches = PairsByLeftSide(AnswerBlockLines)

\* ---------------------------------------------------------------------------
\* Licensing server in database mode: approval of one Stripe order by webhook
\* deliveries, admin approvals and manual syncs (src/server/app.py).  Each
\* handler reads the order, decides, creates a key, updates the order and
\* sends the key email as separate autocommit statements, so the steps of
\* concurrent requests interleave.
\* ---------------------------------------------------------------------------
Handlers == 1..MaxHandlers

RequestKinds == {"webhook", "approve", "sync"}

NoPayRequest == [kind |-> "none", pc |-> "idle", seen |-> "", paid |-> FALSE,
                 key |-> 0, email |-> "none"]

\* send_key_email: every delivery failure is caught inside and reported as
\* the return value False; the call does not raise
send_key_email(delivered) == [raised |-> FALSE, sent |-> delivered]

InitPay ==
    /\ OrdIdle
    /\ ClsIdle
    /\ PqIdle
    /\ LoopIdle
    /\ ActIdle
    /\ FzIdle
    /\ IntIdle
    /\ SessIdle
    /\ MatchIdle
    /\ order_status = "pending"
    /\ order_key = 0
    /\ keys_created = 0
    /\ approvals = 0
    /\ email_retry_queue = {}
    /\ pay_req = [h \in Handlers |-> NoPayRequest]

\* a request arrives and the handler reads the order with find_order; paid
\* is the payment status Stripe reports for the checkout session
FindOrder(h, kind, paid) ==
    /\ pay_req[h].pc = "idle"
    /\ pay_req' = [pay_req EXCEPT ![h] =
          [NoPayRequest EXCEPT !.kind = kind, !.pc = "found",
                               !.seen = order_status, !.paid = paid]]
    /\ UNCHANGED <<order_status, order_key, keys_created, approvals, email_retry_queue>>
    /\ UNCHANGED <<ordVars, clsVars, pqVars, loopVars, actVars, fzVars, intVars, sessVars, matchVars>>

\* the handler's test of the order it read
MayApprove(req) ==
    IF req.kind = "webhook" THEN req.seen # "approved" /\ req.paid
    ELSE IF req.kind = "approve" THEN req.seen = "pending"
    ELSE req.paid /\ req.seen # "approved"

\* the handler answers without approving, or generate_key_with_expiry adds
\* a key
GenerateKey(h) ==
    /\ pay_req[h].pc = "found"
    /\ IF MayApprove(pay_req[h])
         THEN /\ keys_created' = keys_created + 1
              /\ pay_req' = [pay_req EXCEPT ![h].pc = "keyed",
                                            ![h].key = keys_created + 1]
         ELSE /\ pay_req' = [pay_req EXCEPT ![h].pc = "done"]
              /\ UNCHANGED keys_created
    /\ UNCHANGED <<order_status, order_key, approvals, email_retry_queue>>
    /\ UNCHANGED <<ordVars, clsVars, pqVars, loopVars, actVars, fzVars, intVars, sessVars, matchVars>>

\* UPDATE orders SET status = 'approved', key = %s WHERE id = %s
update_order_status(h) ==
    /\ pay_req[h].pc = "keyed"
    /\ order_status' = "approved"
    /\ order_key' = pay_req[h].key
    /\ approvals' = approvals + 1
    /\ pay_req' = [pay_req EXCEPT ![h].pc = "updated"]
    /\ UNCHANGED <<keys_created, email_retry_queue>>
    /\ UNCHANGED <<ordVars, clsVars, pqVars, loopVars, actVars, fzVars, intVars, sessVars, matchVars>>

\* the key email: the webhook and the sync queue a retry in their except
\* branch, the admin approval reports email_sent
SendKeyEmail(h) ==
    /\ pay_req[h].pc = "updated"
    /\ \E delivered \in BOOLEAN :
          LET result == send_key_email(delivered)
          IN  /\ pay_req' = [pay_req EXCEPT
                    ![h].pc = "done",
                    ![h].email = IF result.sent THEN "sent" ELSE "failed"]
              /\ email_retry_queue' =
                    IF pay_req[h].kind \in {"webhook", "sync"} /\ result.raised
                      THEN email_retry_queue \cup {pay_req[h].key}
                    ELSE email_retry_queue
    /\ UNCHANGED <<order_status, order_key, keys_created, approvals>>
    /\ UNCHANGED <<ordVars, clsVars, pqVars, loopVars, actVars, fzVars, intVars, sessVars, matchVars>>

NextPay ==
    \/ \E h \in Handlers, kind \in RequestKinds, paid \in BOOLEAN : FindOrder(h, kind, paid)
    \/ \E h \in Handlers : GenerateKey(h)
    \/ \E h \in Handlers : update_order_status(h)
    \/ \E h \in Handlers : SendKeyEmail(h)

SpecPay == InitPay /\ [][NextPay]_vars

\* C28: across every interleaving of webhook deliveries, admin approvals and
\* manual syncs at most one access key is generated for the order and the
\* order is approved at most once.
C28_OneKeyPerOrder ==
    keys_created <= 1 /\ approvals <= 1

\* C29: whenever delivery of the key email fails after the webhook has
\* approved the order, the order has an entry in the email retry queue.
C29_FailedEmailQueued ==
    \A h \in Handlers :
        (pay_req[h].kind = "webhook" /\ pay_req[h].pc = "done"
            /\ pay_req[h].email = "failed")
          => pay_req[h].key \in email_retry_queue

\* ---------------------------------------------------------------------------
\* The reordering loop only moves items up
\* ---------------------------------------------------------------------------
\* the slots before the target position hold their final items
PrefixFinal ==
    \A q \in Range0(target_pos) : At(dom, q) = At(desired_order, q)

\* the slots before the target position are left as they are
PrefixKept ==
    \A q \in Range0(target_pos) : At(dom', q) = At(dom, q)

\* C30: with a desired order that is a permutation of the original items and
\* no move skipped, at every target position p that is processed the item's
\* slot satisfies cur >= p and the slots 0..p-1 hold their final items and
\* never change again; every move is upward (no ARROW_DOWN is sent, the
\* downward index shift is never taken) and at most n-1 gestures are issued
\* for n items.
C30_UpwardOnly ==
    /\ [] ((opc \in {"loop", "done", "raised"} /\ ~skipped) =>
              /\ IsPermutation(desired_order, Len(original_items))
              /\ PrefixFinal
              /\ target_pos < Len(desired_order) => StepCur >= target_pos
              /\ ~InSeq("ARROW_DOWN", signals)
              /\ gestures <= Len(original_items) - 1)
    /\ [][ (opc = "loop" /\ ~skipped') => PrefixKept ]_vars

\* four items brought into reverse order with three upward gestures
C30_Witness ==
    /\ opc = "done"
    /\ ~skipped
    /\ Len(original_items) = 4
    /\ gestures = 3
    /\ dom = <<3, 2, 1, 0>>
    /\ dom = desired_order

====
